---- MODULE Spec2Model ----
(***************************************************************************)
(* Verification model of the smart-home-lab firmware extensions.           *)
(*                                                                         *)
(* Part 1: DisplayStream, the snapshot / stream encoder that serialises    *)
(* the live framebuffer as a BMP file in bounded chunks.                   *)
(*                                                                         *)
(* Part 2: GfxBlend, the blending pipeline, and GfxShapes::draw_generic    *)
(* with the GfxProxy that routes pixel writes through the pipeline.        *)
(***************************************************************************)
EXTENDS Integers, Sequences, FiniteSets, TLC

(***************************************************************************)
(* Bounds of the model.                                                    *)
(***************************************************************************)
MaxWidth == 4
MaxHeight == 1
MaxChunk == 4
MaxFrame == 1

\* GfxBlend: steps per with(...) call, nesting of drawing calls, and the
\* native size of the display.
MaxSteps == 2
MaxDepth == 2
NativeW == 2
NativeH == 2

\* largest side of a rounded rectangle
MaxSide == 8

\* Longest session log: one header plus one chunk per byte, plus slack for
\* the zero-length chunks a max_chunk_size of 0 produces.
MaxSent == 2 + 2 * MaxWidth * MaxHeight

(***************************************************************************)
(* Program constants.                                                      *)
(***************************************************************************)
BMP_FILE_HEADER_SIZE == 14
BMP_DIB_HEADER_SIZE == 40
BMP_MASKS_SIZE == 12
TOTAL_HEADER_SIZE == BMP_FILE_HEADER_SIZE + BMP_DIB_HEADER_SIZE + BMP_MASKS_SIZE

NullPtr == 0

(***************************************************************************)
(* Integer helpers: bytes of a 32-bit word, little-endian layout.          *)
(***************************************************************************)
Min(a, b) == IF a < b THEN a ELSE b

RECURSIVE Pow256(_)
Pow256(k) == IF k = 0 THEN 1 ELSE 256 * Pow256(k - 1)

ByteOf(v, k) == (v \div Pow256(k)) % 256

\* \div rounds down and % is non-negative, so a negative int32_t yields the
\* bytes of its two's complement image
LE16(v) == << ByteOf(v, 0), ByteOf(v, 1) >>
LE32(v) == << ByteOf(v, 0), ByteOf(v, 1), ByteOf(v, 2), ByteOf(v, 3) >>

(***************************************************************************)
(* The live framebuffer.  Frame f of the display holds, at byte index i    *)
(* (1-based), the value 16*f + i, so all bytes of a frame differ and two   *)
(* frames differ everywhere.                                               *)
(***************************************************************************)
Frame(f, len) == [i \in 1..len |-> (16 * f + i) % 256]

\* buffer_length_ = width_ * height_ * 2
BufferLength(w, h) == w * h * 2

VARIABLES
    width_,            \* int width_
    height_,           \* int height_
    buffer_length_,    \* size_t buffer_length_
    max_chunk_size_,   \* size_t max_chunk_size_
    buffer_,           \* uint8_t *buffer_: NullPtr or 1 (the display's buffer)
    framebuffer,       \* the bytes behind buffer_ (owned by the display)
    snapshot_buffer_,  \* uint8_t *snapshot_buffer_: NullPtr or an address
    snapshot_mem,      \* the bytes behind snapshot_buffer_
    current_pos_,      \* size_t current_pos_
    header_sent_,      \* bool header_sent_
    is_streaming_,     \* bool is_streaming_
    op,                \* the operation that ran last
    ret,               \* its return value (FALSE after a call that returns nothing)
    sunk,              \* the send_callback invocations it made
    heap,              \* what malloc did in it: "none", "ok" or "fail"
    pre,               \* the encoder's fields before it ran
    sent,              \* the send_callback invocations of the session so far
    pipeline_,         \* GfxBlend::pipeline_: the steps, in insertion order
    read_bg_,          \* GfxBlend::read_bg_
    use_bg_as_source_, \* GfxBlend::use_bg_as_source_
    rotation,          \* the display's rotation in degrees
    raw_buffer,        \* the display's raw RGB565 buffer (two bytes a pixel)
    stack,             \* the draw_generic calls in progress, innermost last
    gop,               \* the GfxBlend operation that ran last
    gargs,             \* the steps it was given
    px,                \* the pixel write it made through its target
    applied,           \* the apply_pipeline call it made
    returned,          \* the drawing call that returned in it
    current_req_,      \* httpd_req_t *current_req_: NullPtr or the request
    current_route_,    \* RouteEntry *current_route_: NullPtr or the route
    is_busy_,          \* bool is_busy_
    current_headers_,  \* the strings of current_headers_: field, value, ...
    registered,        \* what the request holds: set_type / set_hdr calls
    wpc,               \* "idle", or "action" while route.action runs
    wop,               \* the WebServerRoutes call that ran last
    wcalls,            \* the set_header calls made for the request so far
    routes_,           \* std::vector<RouteEntry> routes_
    matched_route_     \* RouteEntry *matched_route_: NullPtr or an index of routes_

stream_vars == << width_, height_, buffer_length_, max_chunk_size_, buffer_,
                  framebuffer, snapshot_buffer_, snapshot_mem, current_pos_,
                  header_sent_, is_streaming_, op, ret, sunk, heap, pre, sent >>

gfx_vars == << pipeline_, read_bg_, use_bg_as_source_, rotation, raw_buffer,
               stack, gop, gargs, px, applied, returned >>

web_vars == << current_req_, current_route_, is_busy_, current_headers_,
               registered, wpc, wop, wcalls, routes_, matched_route_ >>

vars == << stream_vars, gfx_vars, web_vars >>

config == << width_, height_, buffer_length_, max_chunk_size_, buffer_ >>

Fields == [pos |-> current_pos_, hdr |-> header_sent_, act |-> is_streaming_,
           snap |-> snapshot_buffer_, mem |-> snapshot_mem,
           fb |-> framebuffer]

(***************************************************************************)
(* DisplayStream::get_bmp_header: the packed FullBMPHeader as bytes.       *)
(***************************************************************************)
\* variant: dib.height = height_, the sign left out
get_bmp_header_bottom_up(w, h, len) ==
    LE16(19778)
    \o LE32(TOTAL_HEADER_SIZE + len)
    \o LE32(0)
    \o LE32(TOTAL_HEADER_SIZE)
    \o LE32(40)
    \o LE32(w)
    \o LE32(h)
    \o LE16(1)
    \o LE16(16)
    \o LE32(3)
    \o LE32(len)
    \o LE32(2835)
    \o LE32(2835)
    \o LE32(0)
    \o LE32(0)
    \o LE32(63488)
    \o LE32(2016)
    \o LE32(31)

get_bmp_header(w, h, len) ==
    LE16(19778)                               \* type 0x4D42 "BM"
    \o LE32(TOTAL_HEADER_SIZE + len)     \* fileSize
    \o LE32(0)                                \* reserved
    \o LE32(TOTAL_HEADER_SIZE)                \* offset
    \o LE32(40)                               \* dib.size
    \o LE32(w)                           \* dib.width
    \o LE32(0 - h)                       \* dib.height
    \o LE16(1)                                \* planes
    \o LE16(16)                               \* bitCount
    \o LE32(3)                                \* compression BI_BITFIELDS
    \o LE32(len)                              \* imageSize
    \o LE32(2835)                             \* xPpm
    \o LE32(2835)                             \* yPpm
    \o LE32(0)                                \* colorsUsed
    \o LE32(0)                                \* colorsImportant
    \o LE32(63488)                            \* red 0xF800
    \o LE32(2016)                             \* green 0x07E0
    \o LE32(31)                               \* blue 0x001F

\* send_callback(ptr, n): the first n bytes behind ptr
Take(bytes, n) == [i \in 1..Min(n, Len(bytes)) |-> bytes[i]]

(***************************************************************************)
(* Construction.                                                           *)
(***************************************************************************)
\* No GfxBlend canvas exists while the stream encoder is examined.
\* no WebServerRoutes request in progress
WebUnused ==
    /\ current_req_ = NullPtr
    /\ current_route_ = NullPtr
    /\ is_busy_ = FALSE
    /\ current_headers_ = << >>
    /\ registered = << >>
    /\ wpc = "idle"
    /\ wop = "none"
    /\ wcalls = << >>
    /\ routes_ = << >>
    /\ matched_route_ = NullPtr

GfxUnused ==
    /\ pipeline_ = << >>
    /\ read_bg_ = TRUE
    /\ use_bg_as_source_ = FALSE
    /\ rotation = 0
    /\ raw_buffer = << >>
    /\ stack = << >>
    /\ gop = "none"
    /\ gargs = << >>
    /\ px = << >>
    /\ applied = << >>
    /\ returned = << >>

Init ==
    /\ width_ \in 0..MaxWidth
    /\ height_ \in 0..MaxHeight
    /\ buffer_length_ = BufferLength(width_, height_)
    /\ max_chunk_size_ \in 0..MaxChunk
    /\ buffer_ \in {NullPtr, 1}
    /\ \E f \in 0..MaxFrame : framebuffer = Frame(f, buffer_length_)
    /\ snapshot_buffer_ = NullPtr
    /\ snapshot_mem = << >>
    /\ current_pos_ = 0
    /\ header_sent_ = FALSE
    /\ is_streaming_ = FALSE
    /\ op = "DisplayStream"
    /\ ret = FALSE
    /\ sunk = << >>
    /\ heap = "none"
    /\ pre = [pos |-> 0, hdr |-> FALSE, act |-> FALSE, snap |-> NullPtr,
              mem |-> << >>, fb |-> framebuffer]
    /\ sent = << >>
    /\ GfxUnused
    /\ WebUnused

(***************************************************************************)
(* The display redraws: the bytes behind buffer_ change.                   *)
(***************************************************************************)
DisplayDraw ==
    /\ \E f \in 0..MaxFrame :
          /\ framebuffer' = Frame(f, buffer_length_)
          /\ framebuffer' # framebuffer
    /\ op' = "draw"
    /\ ret' = FALSE
    /\ sunk' = << >>
    /\ heap' = "none"
    /\ pre' = Fields
    /\ UNCHANGED << web_vars, gfx_vars, config, snapshot_buffer_, snapshot_mem, current_pos_,
                    header_sent_, is_streaming_, sent >>

(***************************************************************************)
(* DisplayStream::take_snapshot                                            *)
(***************************************************************************)
\* variant: the length test of line 91 left out
SourceMissingPtrOnly(buf, len) == buf = NullPtr

\* line 91: no source or no length
SourceMissing(buf, len) == buf = NullPtr \/ len = 0

\* variant: a fresh buffer is reserved on every call
AllocAlways(ptr) == TRUE

\* line 96: reserve memory only if the snapshot buffer is not set
AllocNeeded(ptr) == ptr = NullPtr

\* lines 112-114: swap bytes 0<->1 and 2<->3 of one little-endian word
\* A uint32_t is held as its four bytes, least significant first.
Shl8(v) == << 0, v[1], v[2], v[3] >>            \* val << 8
Shr8(v) == << v[2], v[3], v[4], 0 >>            \* val >> 8
AndFF00FF00(v) == << 0, v[2], 0, v[4] >>        \* & 0xFF00FF00
And00FF00FF(v) == << v[1], 0, v[3], 0 >>        \* & 0x00FF00FF
Or32(a, b) == [k \in 1..4 |-> IF a[k] = 0 THEN b[k] ELSE a[k]]  \* disjoint masks

SwapWord(b0, b1, b2, b3) ==
    LET val == << b0, b1, b2, b3 >>
    IN  Or32(AndFF00FF00(Shl8(val)), And00FF00FF(Shr8(val)))

\* line 108
NumIterations(len) == len \div 4

\* lines 104-115: memcpy, then the in-place swap of the first len/4 words
CopyAndSwap(src, len) ==
    [i \in 1..len |->
        IF (i - 1) \div 4 < NumIterations(len)
        THEN LET base == 4 * ((i - 1) \div 4)
             IN  SwapWord(src[base + 1], src[base + 2],
                          src[base + 3], src[base + 4])[i - base]
        ELSE src[i]]

take_snapshot ==
    /\ op' = "take_snapshot"
    /\ sunk' = << >>
    /\ pre' = Fields
    /\ IF SourceMissing(buffer_, buffer_length_)
       THEN /\ ret' = FALSE
            /\ heap' = "none"
            /\ UNCHANGED << snapshot_buffer_, snapshot_mem >>
       ELSE IF AllocNeeded(snapshot_buffer_)
            THEN \E ok \in BOOLEAN :
                    IF ok
                    THEN /\ heap' = "ok"
                         /\ snapshot_buffer_' = snapshot_buffer_ + 1
                         /\ snapshot_mem' = CopyAndSwap(framebuffer, buffer_length_)
                         /\ ret' = TRUE
                    ELSE /\ heap' = "fail"
                         /\ ret' = FALSE
                         /\ UNCHANGED << snapshot_buffer_, snapshot_mem >>
            ELSE /\ heap' = "none"
                 /\ snapshot_mem' = CopyAndSwap(framebuffer, buffer_length_)
                 /\ ret' = TRUE
                 /\ UNCHANGED snapshot_buffer_
    /\ UNCHANGED << web_vars, gfx_vars, config, framebuffer, current_pos_, header_sent_,
                    is_streaming_, sent >>

(***************************************************************************)
(* DisplayStream::get_bmp_chunk                                            *)
(***************************************************************************)
\* line 143
ChunkSize(remaining, max) == Min(remaining, max)

\* variant: chunk_ptr = snapshot_buffer_, the cursor left out
ChunkDataFromStart(mem, pos, n) == [i \in 1..n |-> mem[i]]

\* line 146: chunk_ptr = snapshot_buffer_ + current_pos_
ChunkData(mem, pos, n) == [i \in 1..n |-> mem[pos + i]]

\* variant: current_pos_ = actual_chunk_size instead of +=
AdvanceAssign(pos, n) == n

\* line 152
Advance(pos, n) == pos + n

\* variant: header_sent_ is never set
SendHeaderAgain ==
    /\ ~header_sent_
    /\ sunk' = << [kind |-> "header", off |-> 0, len |-> TOTAL_HEADER_SIZE,
                   data |-> Take(get_bmp_header(width_, height_, buffer_length_),
                                 TOTAL_HEADER_SIZE)] >>
    /\ sent' = Append(sent, [kind |-> "header", off |-> 0,
                             len |-> TOTAL_HEADER_SIZE])
    /\ Len(sent) < MaxSent
    /\ ret' = TRUE
    /\ UNCHANGED << current_pos_, is_streaming_, header_sent_ >>

\* lines 121-126
SendHeader ==
    /\ ~header_sent_
    /\ sunk' = << [kind |-> "header", off |-> 0, len |-> TOTAL_HEADER_SIZE,
                   data |-> Take(get_bmp_header(width_, height_, buffer_length_),
                                 TOTAL_HEADER_SIZE)] >>
    /\ sent' = Append(sent, [kind |-> "header", off |-> 0,
                             len |-> TOTAL_HEADER_SIZE])
    /\ header_sent_' = TRUE
    /\ ret' = TRUE
    /\ UNCHANGED << current_pos_, is_streaming_ >>

\* variant: the cursor is rewound once everything has been sent
StreamFinishedRewind ==
    /\ header_sent_
    /\ current_pos_ >= buffer_length_
    /\ is_streaming_' = FALSE
    /\ current_pos_' = 0
    /\ ret' = FALSE
    /\ sunk' = << >>
    /\ UNCHANGED << header_sent_, sent >>

\* lines 129-132
StreamFinished ==
    /\ header_sent_
    /\ current_pos_ >= buffer_length_
    /\ is_streaming_' = FALSE
    /\ ret' = FALSE
    /\ sunk' = << >>
    /\ UNCHANGED << current_pos_, header_sent_, sent >>

\* variant: a missing snapshot ends the transfer
AwaitSnapshotAbort ==
    /\ header_sent_
    /\ current_pos_ < buffer_length_
    /\ snapshot_buffer_ = NullPtr
    /\ is_streaming_' = FALSE
    /\ ret' = FALSE
    /\ sunk' = << >>
    /\ UNCHANGED << current_pos_, header_sent_, sent >>

\* lines 135-139
AwaitSnapshot ==
    /\ header_sent_
    /\ current_pos_ < buffer_length_
    /\ snapshot_buffer_ = NullPtr
    /\ ret' = TRUE
    /\ sunk' = << >>
    /\ UNCHANGED << current_pos_, header_sent_, is_streaming_, sent >>

\* lines 142-155
SendChunk ==
    /\ header_sent_
    /\ current_pos_ < buffer_length_
    /\ snapshot_buffer_ # NullPtr
    /\ Len(sent) < MaxSent
    /\ LET remaining == buffer_length_ - current_pos_
           actual_chunk_size == ChunkSize(remaining, max_chunk_size_)
       IN  /\ sunk' = << [kind |-> "pixels", off |-> current_pos_,
                          len |-> actual_chunk_size,
                          data |-> ChunkData(snapshot_mem, current_pos_,
                                             actual_chunk_size)] >>
           /\ sent' = Append(sent, [kind |-> "pixels", off |-> current_pos_,
                                    len |-> actual_chunk_size])
           /\ current_pos_' = Advance(current_pos_, actual_chunk_size)
           /\ ret' = (current_pos_' < buffer_length_)
    /\ UNCHANGED << header_sent_, is_streaming_ >>

get_bmp_chunk ==
    /\ op' = "get_bmp_chunk"
    /\ heap' = "none"
    /\ pre' = Fields
    /\ \/ SendHeader
       \/ StreamFinished
       \/ AwaitSnapshot
       \/ SendChunk
    /\ UNCHANGED << web_vars, gfx_vars, config, framebuffer, snapshot_buffer_, snapshot_mem >>

(***************************************************************************)
(* The queries and start_streaming.                                        *)
(***************************************************************************)
Query(name, value) ==
    /\ op' = name
    /\ ret' = value
    /\ sunk' = << >>
    /\ heap' = "none"
    /\ pre' = Fields
    /\ UNCHANGED << web_vars, gfx_vars, config, framebuffer, snapshot_buffer_, snapshot_mem,
                    current_pos_, header_sent_, is_streaming_, sent >>

\* variant: the three colour masks are not counted
FileSizeNoMasks(len) == BMP_FILE_HEADER_SIZE + BMP_DIB_HEADER_SIZE + len

FileSize(len) == TOTAL_HEADER_SIZE + len

NeedsSnapshot(act, ptr) == act /\ (ptr = NullPtr)

get_file_size == Query("get_file_size", FileSize(buffer_length_))

is_streaming == Query("is_streaming", is_streaming_)

needs_snapshot == Query("needs_snapshot",
                        NeedsSnapshot(is_streaming_, snapshot_buffer_))

\* variant: header_sent_ is not reset
start_streaming_keep_header ==
    /\ is_streaming_' = TRUE
    /\ current_pos_' = 0
    /\ op' = "start_streaming"
    /\ ret' = FALSE
    /\ sunk' = << >>
    /\ heap' = "none"
    /\ pre' = Fields
    /\ sent' = << >>
    /\ UNCHANGED << web_vars, gfx_vars, config, framebuffer, snapshot_buffer_, snapshot_mem,
                    header_sent_ >>

start_streaming ==
    /\ is_streaming_' = TRUE
    /\ header_sent_' = FALSE
    /\ current_pos_' = 0
    /\ op' = "start_streaming"
    /\ ret' = FALSE
    /\ sunk' = << >>
    /\ heap' = "none"
    /\ pre' = Fields
    /\ sent' = << >>
    /\ UNCHANGED << web_vars, gfx_vars, config, framebuffer, snapshot_buffer_, snapshot_mem >>

Next ==
    \/ DisplayDraw
    \/ take_snapshot
    \/ get_bmp_chunk
    \/ get_file_size
    \/ is_streaming
    \/ needs_snapshot
    \/ start_streaming

Spec == Init /\ [][Next]_vars

TypeOK ==
    /\ current_pos_ \in 0..buffer_length_
    /\ header_sent_ \in BOOLEAN
    /\ is_streaming_ \in BOOLEAN
    /\ snapshot_buffer_ \in Nat

(***************************************************************************)
(* Properties of the stream encoder.                                       *)
(***************************************************************************)
PixelCalls == SelectSeq(sent, LAMBDA e : e.kind = "pixels")

ChunkLens == [k \in 1..Len(PixelCalls) |-> PixelCalls[k].len]

\* The last operation was a get_bmp_chunk that handed pixel data to the sink.
EmittedPixels ==
    /\ op = "get_bmp_chunk"
    /\ Len(sunk) = 1
    /\ sunk[1].kind = "pixels"

\* C1: within a session the pixel chunks handed to the sink are consecutive
\* slices of the snapshot: the first starts at byte 0, each next one starts
\* where the previous one ended (which is the cursor), each carries the
\* snapshot bytes of its range, and when "done" is reported the slices cover
\* bytes [0, buffer_length) with nothing skipped, repeated or reordered.
C1_ChunksSequential ==
    /\ \A k \in 1..Len(PixelCalls) :
          PixelCalls[k].off = IF k = 1 THEN 0
                              ELSE PixelCalls[k - 1].off + PixelCalls[k - 1].len
    /\ current_pos_ = IF Len(PixelCalls) = 0 THEN 0
                      ELSE PixelCalls[Len(PixelCalls)].off
                           + PixelCalls[Len(PixelCalls)].len
    /\ current_pos_ <= buffer_length_
    /\ (op = "get_bmp_chunk" /\ ret = FALSE) => current_pos_ = buffer_length_
    /\ EmittedPixels =>
          /\ sunk[1].off = pre.pos
          /\ Len(sunk[1].data) = sunk[1].len
          /\ \A i \in 1..sunk[1].len :
                sunk[1].data[i] = snapshot_mem[sunk[1].off + i]

C1_Witness ==
    /\ EmittedPixels
    /\ ret = FALSE
    /\ Len(PixelCalls) >= 3
    /\ current_pos_ = buffer_length_

\* C2: the get_bmp_chunk call that emits the final chunk, advancing the
\* cursor to buffer_length, reports "done" and leaves streaming inactive.
C2_FinalChunkEndsStreaming ==
    (EmittedPixels /\ current_pos_ = buffer_length_)
        => (ret = FALSE /\ ~is_streaming_)

\* C3 as stated: the first get_bmp_chunk call of a session hands exactly a
\* 54-byte header to the sink, reports "more pending" and leaves the cursor
\* at 0.
C3_FirstCallSends54Bytes ==
    (op = "get_bmp_chunk" /\ ~pre.hdr) =>
        /\ Len(sunk) = 1
        /\ sunk[1].kind = "header"
        /\ sunk[1].len = 54
        /\ Len(sunk[1].data) = 54
        /\ ret = TRUE
        /\ current_pos_ = 0

\* C3 amended: the first get_bmp_chunk call of a session hands exactly the
\* 66-byte header (14 + 40 + 12) to the sink and nothing else, reports "more
\* pending" and leaves the cursor at 0; the header is handed over exactly
\* once per session, before any pixel data.
C3_FirstCallSendsHeaderOnce ==
    /\ (op = "get_bmp_chunk" /\ ~pre.hdr) =>
          /\ Len(sunk) = 1
          /\ sunk[1].kind = "header"
          /\ sunk[1].len = 66
          /\ Len(sunk[1].data) = 66
          /\ sunk[1].data = get_bmp_header(width_, height_, buffer_length_)
          /\ ret = TRUE
          /\ current_pos_ = 0
          /\ pre.pos = 0
    /\ header_sent_ <=> sent # << >>
    /\ \A k \in 1..Len(sent) : (sent[k].kind = "header") <=> (k = 1)

C3_Witness ==
    /\ op = "get_bmp_chunk"
    /\ ~pre.hdr
    /\ pre.act
    /\ sent = << [kind |-> "header", off |-> 0, len |-> 66] >>

\* C4: while the header has been sent, the cursor is below buffer_length and
\* no snapshot buffer exists, a get_bmp_chunk call reports "more pending",
\* does not invoke the sink and leaves cursor, header_sent and
\* streaming_active unchanged.
C4_AwaitSnapshotIsNoOp ==
    (op = "get_bmp_chunk" /\ pre.hdr /\ pre.pos < buffer_length_
        /\ pre.snap = NullPtr) =>
        /\ ret = TRUE
        /\ sunk = << >>
        /\ current_pos_ = pre.pos
        /\ header_sent_ = pre.hdr
        /\ is_streaming_ = pre.act

C4_Witness ==
    /\ op = "get_bmp_chunk"
    /\ pre.hdr
    /\ pre.pos < buffer_length_
    /\ pre.snap = NullPtr
    /\ is_streaming_
    /\ sunk = << >>

\* C5: once a snapshot exists and the header has been sent, a get_bmp_chunk
\* call with cursor < buffer_length emits one chunk of length
\* min(max_chunk_size, buffer_length - cursor), advances the cursor by that
\* length and reports "more pending" iff the new cursor is below
\* buffer_length.
C5_ChunkLengthAndCursor ==
    (op = "get_bmp_chunk" /\ pre.hdr /\ pre.pos < buffer_length_
        /\ pre.snap # NullPtr) =>
        /\ Len(sunk) = 1
        /\ sunk[1].kind = "pixels"
        /\ sunk[1].len = Min(max_chunk_size_, buffer_length_ - pre.pos)
        /\ Len(sunk[1].data) = sunk[1].len
        /\ current_pos_ = pre.pos + sunk[1].len
        /\ (ret = TRUE) <=> (current_pos_ < buffer_length_)

\* length 8 with a maximum of 3: chunks 3, 3, 2 and the cursor at 8
C5_Witness ==
    /\ EmittedPixels
    /\ buffer_length_ = 8
    /\ max_chunk_size_ = 3
    /\ ChunkLens = << 3, 3, 2 >>
    /\ current_pos_ = 8
    /\ ret = FALSE

\* C6: current_pos_ never decreases except by start_streaming, which is the
\* only operation that sets it back to zero; take_snapshot, needs_snapshot,
\* is_streaming and get_file_size never change it.
C6_CursorMonotonic ==
    /\ op # "start_streaming" => current_pos_ >= pre.pos
    /\ (current_pos_ = 0 /\ pre.pos # 0) => op = "start_streaming"
    /\ op \in {"take_snapshot", "needs_snapshot", "is_streaming",
               "get_file_size"} => current_pos_ = pre.pos

C6_Witness ==
    /\ op = "take_snapshot"
    /\ ret = TRUE
    /\ pre.pos > 0
    /\ pre.pos < buffer_length_
    /\ current_pos_ = pre.pos

\* C7: start_streaming, in any state, makes streaming active, sets the cursor
\* to 0 and header_sent to false; the calls that follow emit the header
\* first and then pixel data from byte 0, whatever the cancelled session had
\* emitted.
C7_StartResetsSession ==
    /\ op = "start_streaming" =>
          /\ is_streaming_
          /\ current_pos_ = 0
          /\ ~header_sent_
          /\ sent = << >>
    /\ (op = "get_bmp_chunk" /\ sunk # << >> /\ Len(sent) = 1) =>
          sunk[1].kind = "header"
    /\ (op = "get_bmp_chunk" /\ sunk # << >> /\ Len(sent) = 2) =>
          (sunk[1].kind = "pixels" /\ sunk[1].off = 0)

C7_Witness ==
    /\ op = "start_streaming"
    /\ pre.act
    /\ pre.hdr
    /\ pre.pos > 0
    /\ pre.pos < buffer_length_
    /\ current_pos_ = 0

\* C8: after a successful take_snapshot every 16-bit pixel i of the
\* framebuffer, 0 <= i < width*height, is in the snapshot with its two bytes
\* swapped.
C8_EveryPixelSwapped ==
    (op = "take_snapshot" /\ ret = TRUE) =>
        \A i \in 0..(width_ * height_ - 1) :
            /\ snapshot_mem[2 * i + 1] = framebuffer[2 * i + 2]
            /\ snapshot_mem[2 * i + 2] = framebuffer[2 * i + 1]

\* C9: the snapshot buffer is allocated at most once: once it exists, no
\* operation changes its address or its size, which is width*height*2.
C9_AllocateOnce ==
    /\ pre.snap # NullPtr =>
          /\ snapshot_buffer_ = pre.snap
          /\ Len(snapshot_mem) = Len(pre.mem)
    /\ snapshot_buffer_ # NullPtr => Len(snapshot_mem) = width_ * height_ * 2
    /\ (op = "take_snapshot" /\ pre.snap # NullPtr) => heap = "none"

C9_Witness ==
    /\ op = "take_snapshot"
    /\ ret = TRUE
    /\ pre.snap # NullPtr
    /\ snapshot_buffer_ = pre.snap
    /\ snapshot_mem # pre.mem

\* C10: take_snapshot returns false when no source buffer is configured,
\* when the buffer length is 0 or when the allocation fails; then no snapshot
\* buffer comes into existence, cursor, header_sent and streaming_active are
\* unchanged and needs_snapshot() keeps its value.
C10_FailureLeavesState ==
    op = "take_snapshot" =>
        /\ (buffer_ = NullPtr \/ buffer_length_ = 0 \/ heap = "fail")
              => ret = FALSE
        /\ ret = FALSE =>
              /\ snapshot_buffer_ = NullPtr
              /\ pre.snap = NullPtr
              /\ snapshot_mem = pre.mem
              /\ current_pos_ = pre.pos
              /\ header_sent_ = pre.hdr
              /\ is_streaming_ = pre.act
              /\ NeedsSnapshot(is_streaming_, snapshot_buffer_)
                    = NeedsSnapshot(pre.act, pre.snap)

C10_Witness ==
    /\ op = "take_snapshot"
    /\ heap = "fail"
    /\ ret = FALSE
    /\ is_streaming_
    /\ header_sent_

\* A little-endian 32-bit field of a byte string, read as a signed int32_t;
\* off is the 0-based byte offset of the field.
S32At(bytes, off) ==
    bytes[off + 1] + 256 * bytes[off + 2] + 65536 * bytes[off + 3]
    + 16777216 * (IF bytes[off + 4] >= 128 THEN bytes[off + 4] - 256
                  ELSE bytes[off + 4])

\* The last operation handed the raster header to the sink.
EmittedHeader ==
    /\ op = "get_bmp_chunk"
    /\ Len(sunk) = 1
    /\ sunk[1].kind = "header"

\* C11 as stated: the header has pixel-data-offset 54 and total file size
\* = pixel data size + 54, width field = width, height field = -height and
\* pixel-data-size field = width*height*2.
C11_HeaderFields54 ==
    EmittedHeader =>
        /\ S32At(sunk[1].data, 10) = 54
        /\ S32At(sunk[1].data, 2) = width_ * height_ * 2 + 54
        /\ S32At(sunk[1].data, 18) = width_
        /\ S32At(sunk[1].data, 22) = 0 - height_
        /\ S32At(sunk[1].data, 34) = width_ * height_ * 2

\* C11 amended: the header has pixel-data-offset 66 and total file size
\* = pixel data size + 66 (110146 for width 172, height 320), width field =
\* width, height field = -height and pixel-data-size field = width*height*2.
C11_HeaderFields ==
    /\ EmittedHeader =>
          /\ S32At(sunk[1].data, 10) = 66
          /\ S32At(sunk[1].data, 2) = width_ * height_ * 2 + 66
          /\ S32At(sunk[1].data, 18) = width_
          /\ S32At(sunk[1].data, 22) = 0 - height_
          /\ S32At(sunk[1].data, 34) = width_ * height_ * 2
    /\ LET big == get_bmp_header(172, 320, BufferLength(172, 320))
       IN  /\ S32At(big, 10) = 66
           /\ S32At(big, 2) = 110146
           /\ S32At(big, 18) = 172
           /\ S32At(big, 22) = 0 - 320
           /\ S32At(big, 34) = 110080

C11_Witness ==
    /\ EmittedHeader
    /\ width_ = 3
    /\ height_ = 1
    /\ S32At(sunk[1].data, 22) = 0 - 1
    /\ S32At(sunk[1].data, 2) = 72

(***************************************************************************)
(***************************************************************************)
(* Part 2: GfxBlend.                                                       *)
(***************************************************************************)
(***************************************************************************)

(***************************************************************************)
(* Colours.  A packed colour is a uint16_t (5/6/5); an esphome::Color is a *)
(* triple of 8-bit channels.                                               *)
(***************************************************************************)
R5(c) == (c \div 2048) % 32
G6(c) == (c \div 32) % 64
B5(c) == c % 32
Pack565(r, g, b) == r * 2048 + g * 32 + b

\* display::ColorUtil::color_to_565: each channel scaled by esp_scale8
color_to_565(color) ==
    Pack565((color[1] * 32) \div 256, (color[2] * 64) \div 256,
            (color[3] * 32) \div 256)

\* variant: the fields are shifted up and the low bits left at zero
rgb565_to_color_shift(rgb565) ==
    << R5(rgb565) * 8, G6(rgb565) * 4, B5(rgb565) * 8 >>

\* rgb565_to_color: bit replication
rgb565_to_color(rgb565) ==
    LET r5 == R5(rgb565)
        g6 == G6(rgb565)
        b5 == B5(rgb565)
    IN  << ((r5 * 8) % 256) + (r5 \div 4),
           ((g6 * 4) % 256) + (g6 \div 16),
           ((b5 * 8) % 256) + (b5 \div 4) >>

\* Effects::inverse: ~fg as a uint16_t
inverse(fg) == 65535 - fg

\* Effects::alpha_
alpha_(fg, bg, alpha) ==
    LET inv_alpha == 255 - alpha
        r == (R5(fg) * alpha + R5(bg) * inv_alpha) \div 256
        g == (G6(fg) * alpha + G6(bg) * inv_alpha) \div 256
        b == (B5(fg) * alpha + B5(bg) * inv_alpha) \div 256
    IN  Pack565(r, g, b)

(***************************************************************************)
(* Pipeline steps.  A step is the effect type handed to                    *)
(* add_step_internal_:                                                     *)
(*   "inverse"  Effects::inverse, a plain function                         *)
(*   "alpha"    the blender_t returned by Effects::alpha(arg)              *)
(*   "nobg"     NoBgWrapper around inverse (make_effect_no_bg, needs_no_bg)*)
(*   "bgsrc"    BgAsSourceWrapper around inverse (bg_as_source)            *)
(*   "demo3"    Effects::demo_effect3, both flags declared at defaults     *)
(*   "srcflag"  an effect struct declaring                                 *)
(*              static constexpr bool use_bg_as_source = true              *)
(* erased is TRUE when the step went through a blender_t (std::function),  *)
(* as every element of an initializer_list<blender_t> does: the static     *)
(* members of the effect type are then out of sight.                       *)
(***************************************************************************)
StepKinds == {"inverse", "alpha", "nobg", "bgsrc", "demo3", "srcflag"}

Effect(kind) == [kind |-> kind, arg |-> IF kind = "alpha" THEN 128 ELSE 0,
                 erased |-> FALSE]

\* the effects the canvas is configured with here
UsedKinds == {"inverse", "alpha", "nobg", "srcflag"}

EffectSet == {Effect(k) : k \in UsedKinds}

\* blender_t(f)
Erase(step) == [step EXCEPT !.erased = TRUE]

\* requires { EffectDef::read_bg; } and its value
DeclaresReadBg(step) == ~step.erased /\ step.kind \in {"nobg", "demo3"}
ReadBgValue(step) == step.kind = "demo3"

\* requires { EffectDef::use_bg_as_source; } and its value
DeclaresUseBgAsSource(step) ==
    ~step.erased /\ step.kind \in {"bgsrc", "demo3", "srcflag"}
UseBgAsSourceValue(step) == step.kind = "srcflag"

\* requires { typename EffectDef::use_bg_as_source; }: the member is a
\* static data member in every effect type, never a type
HasSourceTypeMember(step) == FALSE

\* func_(x, y, fg, bg): the body of the effect
Call(step, x, y, fg, bg) ==
    CASE step.kind = "inverse" -> inverse(fg)
      [] step.kind = "alpha"   -> alpha_(fg, bg, step.arg)
      [] step.kind = "nobg"    -> inverse(fg)
      [] step.kind = "bgsrc"   -> inverse(bg)
      [] step.kind = "demo3"   -> inverse(fg)
      [] step.kind = "srcflag" -> inverse(fg)

\* GenericEffect::blend: the arguments func_ receives and what it returns
blend(step, x, y, fg, bg) ==
    IF HasSourceTypeMember(step)
    THEN [x |-> x, y |-> y, fg |-> bg, bg |-> bg,
          out |-> Call(step, x, y, bg, bg)]
    ELSE [x |-> x, y |-> y, fg |-> fg, bg |-> bg,
          out |-> Call(step, x, y, fg, bg)]

\* variant: every step is handed the original fg
RECURSIVE ApplyTraceNoChain(_, _, _, _, _)
ApplyTraceNoChain(p, x, y, current_fg, bg) ==
    IF p = << >> THEN << >>
    ELSE << blend(Head(p), x, y, current_fg, bg) >>
         \o ApplyTraceNoChain(Tail(p), x, y, current_fg, bg)

\* GfxBlend::apply_pipeline, the loop: one blend call per step, each taking
\* the result of the previous one as its fg
RECURSIVE ApplyTrace(_, _, _, _, _)
ApplyTrace(p, x, y, current_fg, bg) ==
    IF p = << >> THEN << >>
    ELSE LET r == blend(Head(p), x, y, current_fg, bg)
         IN  << r >> \o ApplyTrace(Tail(p), x, y, r.out, bg)

\* GfxBlend::apply_pipeline, the value returned
apply_pipeline(p, x, y, fg, bg) ==
    LET t == ApplyTrace(p, x, y, fg, bg)
    IN  IF t = << >> THEN fg ELSE t[Len(t)].out

(***************************************************************************)
(* Pipeline configuration.  c is the triple of pipeline_, read_bg_ and     *)
(* use_bg_as_source_.                                                      *)
(***************************************************************************)
GfxConfig == [p |-> pipeline_, rb |-> read_bg_, src |-> use_bg_as_source_]

\* GfxBlend::clear
Cleared == [p |-> << >>, rb |-> TRUE, src |-> FALSE]

\* GfxBlend::add_step_internal_
add_step_internal_(c, step) ==
    LET no_bg == DeclaresReadBg(step) /\ ~ReadBgValue(step)
        as_source == DeclaresUseBgAsSource(step) /\ UseBgAsSourceValue(step)
        rb1 == IF no_bg THEN FALSE ELSE c.rb
    IN  [p   |-> Append(c.p, step),
         rb  |-> IF as_source THEN TRUE ELSE rb1,
         src |-> IF as_source THEN TRUE ELSE c.src]

\* add_effects_from_tuple_ / the loop of with(initializer_list)
RECURSIVE AddAll(_, _)
AddAll(c, steps) ==
    IF steps = << >> THEN c
    ELSE AddAll(add_step_internal_(c, Head(steps)), Tail(steps))

\* the steps as with(...) stores them: the initializer_list form wraps each
\* in a blender_t, the variadic form keeps the effect type
Stored(form, steps) ==
    IF form = "list" THEN [i \in 1..Len(steps) |-> Erase(steps[i])]
    ELSE steps

\* variant: with(...) adds its steps to the pipeline in place
ConfiguredExtend(form, steps) ==
    AddAll([p |-> pipeline_, rb |-> read_bg_, src |-> use_bg_as_source_],
           Stored(form, steps))

\* with(...): clear(), then add every step
Configured(form, steps) == AddAll(Cleared, Stored(form, steps))

(***************************************************************************)
(* The display behind the canvas.                                          *)
(***************************************************************************)
Rotations == {0, 90, 180, 270}

\* get_width() / get_height(): the size as the drawing code sees it
ScreenW(rot) == IF rot \in {90, 270} THEN NativeH ELSE NativeW
ScreenH(rot) == IF rot \in {90, 270} THEN NativeW ELSE NativeH

\* variant: the axes are swapped but never mirrored
NativeXYNoMirror(rot, x, y) ==
    CASE rot = 90  -> << y, x >>
      [] rot = 180 -> << NativeW - x - 1, NativeH - y - 1 >>
      [] rot = 270 -> << y, x >>
      [] OTHER     -> << x, y >>

\* the switch of read_raw_pixel_from_buffer_: screen to native coordinates
NativeXY(rot, x, y) ==
    CASE rot = 90  -> << NativeW - y - 1, x >>
      [] rot = 180 -> << NativeW - x - 1, NativeH - y - 1 >>
      [] rot = 270 -> << y, NativeH - x - 1 >>
      [] OTHER     -> << x, y >>

\* pos = (y * native_w + x) * 2, 0-based
BufferPos(rot, x, y) ==
    LET n == NativeXY(rot, x, y) IN (n[2] * NativeW + n[1]) * 2

\* GfxBlend::read_raw_pixel_from_buffer_
read_raw_pixel_from_buffer_(buf, rot, x, y) ==
    IF buf = << >> THEN 0
    ELSE LET pos == BufferPos(rot, x, y)
         IN  buf[pos + 1] * 256 + buf[pos + 2]

(***************************************************************************)
(* Inputs of the canvas operations.                                        *)
(***************************************************************************)
StepSeqs(n) == UNION {[1..k -> EffectSet] : k \in 0..n}

DrawColors == { << 200, 100, 50 >> }

Palette == {0, 4660}

\* pixel positions, both on the screen of the smallest display modelled
Positions == { << 0, 0 >>, << 1, 0 >> }

(***************************************************************************)
(* Construction of the canvas on a display.                                *)
(***************************************************************************)
\* No DisplayStream exists while the canvas is examined.
StreamUnused ==
    /\ width_ = 0
    /\ height_ = 0
    /\ buffer_length_ = 0
    /\ max_chunk_size_ = 0
    /\ buffer_ = NullPtr
    /\ framebuffer = << >>
    /\ snapshot_buffer_ = NullPtr
    /\ snapshot_mem = << >>
    /\ current_pos_ = 0
    /\ header_sent_ = FALSE
    /\ is_streaming_ = FALSE
    /\ op = "none"
    /\ ret = FALSE
    /\ sunk = << >>
    /\ heap = "none"
    /\ pre = [pos |-> 0, hdr |-> FALSE, act |-> FALSE, snap |-> NullPtr,
              mem |-> << >>, fb |-> << >>]
    /\ sent = << >>

GfxInit ==
    /\ StreamUnused
    /\ WebUnused
    /\ pipeline_ = << >>
    /\ read_bg_ = TRUE
    /\ use_bg_as_source_ = FALSE
    /\ rotation = 0
    /\ raw_buffer = Frame(1, NativeW * NativeH * 2)
    /\ stack = << >>
    /\ gop = "GfxBlend"
    /\ gargs = << >>
    /\ px = << >>
    /\ applied = << >>
    /\ returned = << >>

(***************************************************************************)
(* Who may call what.  The canvas is configured from the display lambda    *)
(* (no drawing call in progress) or from the callback of a scoped          *)
(* with(...); the callback of a shape call only draws.                     *)
(***************************************************************************)
Top == stack[Len(stack)]

InUserCode == IF stack = << >> THEN TRUE ELSE Top.origin = "with"

SetConfig(c) ==
    /\ pipeline_' = c.p
    /\ read_bg_' = c.rb
    /\ use_bg_as_source_' = c.src

(***************************************************************************)
(* GfxBlend::clear                                                         *)
(***************************************************************************)
clear ==
    /\ InUserCode
    /\ SetConfig(Cleared)
    /\ gop' = "clear"
    /\ gargs' = << >>
    /\ px' = << >>
    /\ applied' = << >>
    /\ returned' = << >>
    /\ UNCHANGED << web_vars, stream_vars, rotation, raw_buffer, stack >>

(***************************************************************************)
(* GfxBlend::with, setter mode: no trailing callable.  The variadic form   *)
(* takes at least one argument.                                            *)
(***************************************************************************)
with_setter ==
    /\ InUserCode
    /\ \E form \in {"list", "args"}, steps \in StepSeqs(MaxSteps) :
          /\ form = "args" => steps # << >>
          /\ SetConfig(Configured(form, steps))
          /\ gargs' = << form, steps >>
    /\ gop' = "with_setter"
    /\ px' = << >>
    /\ applied' = << >>
    /\ returned' = << >>
    /\ UNCHANGED << web_vars, stream_vars, rotation, raw_buffer, stack >>

(***************************************************************************)
(* GfxShapes::draw_generic, entry: the target of the call is the real      *)
(* display when the pipeline is empty and a GfxProxy otherwise.            *)
(***************************************************************************)
\* variant: a proxy is created for every call
ModeAtEntryProxy(p) == "Intercepted"

\* line 421
ModeAtEntry(p) == IF p = << >> THEN "Direct" ELSE "Intercepted"

EnterDraw(origin, p) ==
    Append(stack, [origin |-> origin, mode |-> ModeAtEntry(p)])

(***************************************************************************)
(* GfxBlend::with, scoped mode, up to the start of the callback: clear(),  *)
(* the steps are added, draw_generic is entered.                           *)
(***************************************************************************)
with_scoped ==
    /\ InUserCode
    /\ Len(stack) < MaxDepth
    /\ \E form \in {"list", "args"}, steps \in StepSeqs(MaxSteps) :
          LET c == Configured(form, steps)
          IN  /\ SetConfig(c)
              /\ stack' = EnterDraw("with", c.p)
              /\ gargs' = << form, steps >>
    /\ gop' = "with_scoped"
    /\ px' = << >>
    /\ applied' = << >>
    /\ returned' = << >>
    /\ UNCHANGED << web_vars, stream_vars, rotation, raw_buffer >>

\* variant: the clear() after draw_generic is missing
with_return_keep ==
    /\ stack # << >>
    /\ Top.origin = "with"
    /\ stack' = SubSeq(stack, 1, Len(stack) - 1)
    /\ returned' = << Top >>
    /\ gop' = "with_return"
    /\ gargs' = << >>
    /\ px' = << >>
    /\ applied' = << >>
    /\ UNCHANGED << web_vars, stream_vars, pipeline_, read_bg_, use_bg_as_source_,
                    rotation, raw_buffer >>

\* GfxBlend::with, scoped mode, from the return of the callback: draw_generic
\* returns, clear()
with_return ==
    /\ stack # << >>
    /\ Top.origin = "with"
    /\ stack' = SubSeq(stack, 1, Len(stack) - 1)
    /\ SetConfig(Cleared)
    /\ returned' = << Top >>
    /\ gop' = "with_return"
    /\ gargs' = << >>
    /\ px' = << >>
    /\ applied' = << >>
    /\ UNCHANGED << web_vars, stream_vars, rotation, raw_buffer >>

(***************************************************************************)
(* A shape call (GfxShapes::filled_rectangle and the like): draw_generic   *)
(* with the library's own drawing lambda.                                  *)
(***************************************************************************)
filled_rectangle ==
    /\ InUserCode
    /\ Len(stack) < MaxDepth
    /\ stack' = EnterDraw("shape", pipeline_)
    /\ gop' = "filled_rectangle"
    /\ gargs' = << >>
    /\ px' = << >>
    /\ applied' = << >>
    /\ returned' = << >>
    /\ UNCHANGED << web_vars, stream_vars, pipeline_, read_bg_, use_bg_as_source_,
                    rotation, raw_buffer >>

\* variant: the pipeline is reset when the shape has been drawn
shape_return_clear ==
    /\ stack # << >>
    /\ Top.origin = "shape"
    /\ stack' = SubSeq(stack, 1, Len(stack) - 1)
    /\ SetConfig(Cleared)
    /\ returned' = << Top >>
    /\ gop' = "shape_return"
    /\ gargs' = << >>
    /\ px' = << >>
    /\ applied' = << >>
    /\ UNCHANGED << web_vars, stream_vars, rotation, raw_buffer >>

\* the shape call returns: draw_generic returns self, nothing else
shape_return ==
    /\ stack # << >>
    /\ Top.origin = "shape"
    /\ stack' = SubSeq(stack, 1, Len(stack) - 1)
    /\ returned' = << Top >>
    /\ gop' = "shape_return"
    /\ gargs' = << >>
    /\ px' = << >>
    /\ applied' = << >>
    /\ UNCHANGED << web_vars, stream_vars, pipeline_, read_bg_, use_bg_as_source_,
                    rotation, raw_buffer >>

(***************************************************************************)
(* One pixel write through the target of the innermost drawing call.  px   *)
(* records what is handed to the real display; the store into the display  *)
(* buffer is the display driver's and raw_buffer stands for the content    *)
(* the background read finds.                                              *)
(***************************************************************************)
\* pipeline_blender, lines 429-436: the fg and bg handed to apply_pipeline
BlenderArgs(rb, src, fg, sample) ==
    LET bg == IF rb THEN sample ELSE 0
    IN  [fg |-> IF rb /\ src THEN bg ELSE fg, bg |-> bg]

\* GfxProxy::draw_pixel_at with the pipeline_blender of draw_generic
ProxyPixel(x, y, color) ==
    LET fg0 == color_to_565(color)
        sample == read_raw_pixel_from_buffer_(raw_buffer, rotation, x, y)
        a == BlenderArgs(read_bg_, use_bg_as_source_, fg0, sample)
        final_color == apply_pipeline(pipeline_, x, y, a.fg, a.bg)
    IN  [mode |-> "Intercepted", x |-> x, y |-> y, color |-> color,
         read |-> read_bg_, sample |-> sample, fg |-> a.fg, bg |-> a.bg,
         trace |-> ApplyTrace(pipeline_, x, y, a.fg, a.bg),
         out |-> final_color, written |-> rgb565_to_color(final_color)]

\* the real display is the target: the write is forwarded as it is
DirectPixel(x, y, color) ==
    [mode |-> "Direct", x |-> x, y |-> y, color |-> color, read |-> FALSE,
     trace |-> << >>, written |-> color]

draw_pixel_at ==
    /\ stack # << >>
    /\ \E xy \in Positions, color \in DrawColors :
          LET w == IF Top.mode = "Direct"
                   THEN DirectPixel(xy[1], xy[2], color)
                   ELSE ProxyPixel(xy[1], xy[2], color)
          IN  px' = << w >>
    /\ gop' = "draw_pixel_at"
    /\ gargs' = << >>
    /\ applied' = << >>
    /\ returned' = << >>
    /\ UNCHANGED << web_vars, stream_vars, pipeline_, read_bg_, use_bg_as_source_,
                    rotation, raw_buffer, stack >>

(***************************************************************************)
(* GfxBlend::apply_pipeline called on its own.                             *)
(***************************************************************************)
apply_call ==
    /\ stack = << >>
    /\ \E xy \in Positions, fg \in Palette, bg \in Palette :
          applied' = << [x |-> xy[1], y |-> xy[2], fg |-> fg, bg |-> bg,
                         trace |-> ApplyTrace(pipeline_, xy[1], xy[2], fg, bg),
                         out |-> apply_pipeline(pipeline_, xy[1], xy[2],
                                                fg, bg)] >>
    /\ gop' = "apply_pipeline"
    /\ gargs' = << >>
    /\ px' = << >>
    /\ returned' = << >>
    /\ UNCHANGED << web_vars, stream_vars, pipeline_, read_bg_, use_bg_as_source_,
                    rotation, raw_buffer, stack >>

NextBlend ==
    \/ clear
    \/ with_setter
    \/ with_scoped
    \/ with_return
    \/ filled_rectangle
    \/ shape_return
    \/ draw_pixel_at
    \/ apply_call

SpecBlend == GfxInit /\ [][NextBlend]_vars

(***************************************************************************)
(* Properties of the canvas.                                               *)
(***************************************************************************)
Kinds(p) == [i \in 1..Len(p) |-> p[i].kind]

\* the step switches the background read off / asks for the background as
\* its source, as add_step_internal_ sees it
SaysNoBg(step) == DeclaresReadBg(step) /\ ~ReadBgValue(step)
SaysBgAsSource(step) == DeclaresUseBgAsSource(step) /\ UseBgAsSourceValue(step)

TypeOKBlend ==
    /\ pipeline_ \in StepSeqs(MaxSteps)
           \cup {Stored("list", q) : q \in StepSeqs(MaxSteps)}
    /\ read_bg_ \in BOOLEAN
    /\ use_bg_as_source_ \in BOOLEAN
    /\ rotation \in Rotations
    /\ Len(stack) <= MaxDepth
    /\ \A i \in 1..Len(stack) :
          /\ stack[i].origin \in {"with", "shape"}
          /\ stack[i].mode \in {"Direct", "Intercepted"}
          /\ stack[i].origin = "shape" => i = Len(stack)
    /\ Len(px) <= 1 /\ Len(applied) <= 1 /\ Len(returned) <= 1

\* C12: after any sequence of configuration operations (with in setter or
\* scoped mode with any mix of flagged and unflagged steps, clear),
\* use_bg_as_source_ implies read_bg_.
C12_SourceImpliesRead == use_bg_as_source_ => read_bg_

\* C13: read_bg_ is true iff the pipeline is empty or at least one of its
\* steps needs the background, i.e. does not declare read_bg = false.
C13_ReadBgIffNeeded ==
    read_bg_ <=> (\/ pipeline_ = << >>
                  \/ \E i \in 1..Len(pipeline_) : ~SaysNoBg(pipeline_[i]))

\* C14: in a two-step pipeline whose second step declares
\* use_bg_as_source = true, apply_pipeline hands the original background to
\* that step as its incoming colour, not the first step's output.
C14_FlaggedStepGetsBackground ==
    (/\ gop = "apply_pipeline"
     /\ Len(pipeline_) = 2
     /\ SaysBgAsSource(pipeline_[2]))
    => applied[1].trace[2].fg = applied[1].bg

\* C15: apply_pipeline folds the steps in insertion order.  For a pipeline
\* of steps without the background-as-source flag, step 1 receives fg, step
\* i+1 receives the output of step i, every step receives the same x, y and
\* the original bg, and the result is the last step's output (fg itself
\* for the empty pipeline); so [inverse, alpha(a)] gives alpha(a)(~fg, bg)
\* and [alpha(a), inverse] gives ~alpha(a)(fg, bg).
C15_ApplyFoldsInOrder ==
    (/\ gop = "apply_pipeline"
     /\ \A i \in 1..Len(pipeline_) : ~SaysBgAsSource(pipeline_[i]))
    => LET a == applied[1]
           n == Len(pipeline_)
       IN  /\ Len(a.trace) = n
           /\ \A i \in 1..n :
                 /\ a.trace[i].x = a.x
                 /\ a.trace[i].y = a.y
                 /\ a.trace[i].bg = a.bg
                 /\ a.trace[i].fg = IF i = 1 THEN a.fg ELSE a.trace[i - 1].out
                 /\ a.trace[i].out = Call(pipeline_[i], a.x, a.y,
                                          a.trace[i].fg, a.bg)
           /\ a.out = IF n = 0 THEN a.fg ELSE a.trace[n].out
           /\ Kinds(pipeline_) = << "inverse", "alpha" >>
                 => a.out = alpha_(inverse(a.fg), a.bg, pipeline_[2].arg)
           /\ Kinds(pipeline_) = << "alpha", "inverse" >>
                 => a.out = inverse(alpha_(a.fg, a.bg, pipeline_[1].arg))

\* [inverse, alpha] applied where the opposite order gives another colour
C15_Witness ==
    /\ gop = "apply_pipeline"
    /\ Kinds(pipeline_) = << "inverse", "alpha" >>
    /\ applied[1].out = alpha_(inverse(applied[1].fg), applied[1].bg,
                               pipeline_[2].arg)
    /\ applied[1].out # inverse(alpha_(applied[1].fg, applied[1].bg,
                                       pipeline_[2].arg))

\* C16: scoped mode leaks no state.  with(steps, callback) starts its one
\* callback with exactly the given steps as the pipeline, whatever was
\* configured before, and when it returns that drawing call is over, the
\* pipeline is empty, read_bg_ is true and use_bg_as_source_ is false, so a
\* drawing call made next is Direct.
C16_ScopedLeaksNothing ==
    [][/\ gop' = "with_scoped"
          => /\ pipeline_' = Stored(gargs'[1], gargs'[2])
             /\ Len(stack') = Len(stack) + 1
             /\ SubSeq(stack', 1, Len(stack)) = stack
             /\ stack'[Len(stack')].origin = "with"
             /\ stack'[Len(stack')].mode = "Intercepted" <=> gargs'[2] # << >>
       /\ gop' = "with_return"
          => /\ stack # << >>
             /\ Top.origin = "with"
             /\ returned' = << Top >>
             /\ stack' = SubSeq(stack, 1, Len(stack) - 1)
             /\ pipeline_' = << >>
             /\ read_bg_' = TRUE
             /\ use_bg_as_source_' = FALSE
       /\ (gop = "with_return" /\ gop' = "filled_rectangle")
          => stack'[Len(stack')].mode = "Direct"]_vars

\* a scoped with(...) whose callback ran intercepted has returned
C16_Witness ==
    /\ gop = "with_return"
    /\ returned[1].origin = "with"
    /\ returned[1].mode = "Intercepted"
    /\ pipeline_ = << >>
    /\ read_bg_
    /\ ~use_bg_as_source_

\* the flags the given steps call for: the background is read unless every
\* step says it does without, and it is the source when a step says so
DerivedSource(steps) == \E i \in 1..Len(steps) : SaysBgAsSource(steps[i])
DerivedReadBg(steps) ==
    \/ steps = << >>
    \/ \E i \in 1..Len(steps) : ~SaysNoBg(steps[i])
    \/ DerivedSource(steps)

\* C17: after a setter-mode with(steps) with at least one step, the
\* pipeline holds exactly the given steps in order, the two flags are the
\* ones derived from these steps, and a shape call made next is Intercepted.
C17_SetterKeepsStepsAndFlags ==
    (gop = "with_setter" /\ gargs[2] # << >>)
    => /\ Kinds(pipeline_) = Kinds(gargs[2])
       /\ read_bg_ = DerivedReadBg(gargs[2])
       /\ use_bg_as_source_ = DerivedSource(gargs[2])
       /\ ModeAtEntry(pipeline_) = "Intercepted"

\* C18, as claimed: when a shape call made outside any callback returns,
\* the pipeline is empty and both flags are at their defaults.
C18_ShapeCallConsumesPipeline ==
    (gop = "shape_return" /\ stack = << >>) => GfxConfig = Cleared

\* C18, amended: a shape call does not touch the configuration.  The
\* pipeline and both flags are the same before and after its entry and its
\* return, so after a setter-mode configuration a second shape call is
\* Intercepted like the first.
C18_ShapeCallKeepsPipeline ==
    [][/\ gop' \in {"filled_rectangle", "shape_return"}
          => UNCHANGED << pipeline_, read_bg_, use_bg_as_source_ >>
       /\ (gop = "shape_return" /\ gop' = "filled_rectangle"
           /\ returned[1].mode = "Intercepted")
          => stack'[Len(stack')].mode = "Intercepted"]_vars

\* a shape call drawn through a configured pipeline has returned to the
\* display lambda and the pipeline is still there
C18_Witness ==
    /\ gop = "shape_return"
    /\ stack = << >>
    /\ returned[1].mode = "Intercepted"
    /\ pipeline_ # << >>

\* C19: the mode of a drawing call is fixed at its entry: Direct iff the
\* pipeline is empty at that instant, Intercepted otherwise.  The frames of
\* the calls in progress never change, whatever the callback does to the
\* pipeline, and every pixel write goes by the mode of its call: forwarded
\* as it is, with no background read and no apply_pipeline, when Direct.
C19_ModeFixedAtEntry ==
    [][/\ gop' \in {"with_scoped", "filled_rectangle"}
          => stack'[Len(stack')].mode =
                IF pipeline_' = << >> THEN "Direct" ELSE "Intercepted"
       /\ \A i \in 1..Min(Len(stack), Len(stack')) : stack'[i] = stack[i]
       /\ gop' = "draw_pixel_at"
          => /\ stack' = stack
             /\ px'[1].mode = Top.mode
             /\ Top.mode = "Direct"
                => /\ px'[1].written = px'[1].color
                   /\ ~px'[1].read
                   /\ px'[1].trace = << >>
             /\ Top.mode = "Intercepted"
                => /\ Len(px'[1].trace) = Len(pipeline_)
                   /\ px'[1].written = rgb565_to_color(px'[1].out)]_vars

\* a pixel is forwarded unmodified by a call that started with an empty
\* pipeline although its callback has configured steps since
C19_Witness ==
    /\ gop = "draw_pixel_at"
    /\ Top.mode = "Direct"
    /\ pipeline_ # << >>
    /\ px[1].mode = "Direct"
    /\ px[1].written = px[1].color

\* C20: for every intercepted pixel write the background handed to
\* apply_pipeline is the framebuffer sample when read_bg_ is set and 0
\* otherwise, and whenever use_bg_as_source_ is set the foreground handed
\* to it is that background instead of the drawn colour.
C20_BlenderInputs ==
    (gop = "draw_pixel_at" /\ px[1].mode = "Intercepted")
    => /\ px[1].bg = IF read_bg_ THEN px[1].sample ELSE 0
       /\ use_bg_as_source_ => px[1].fg = px[1].bg

(***************************************************************************)
(* Part 3.  The sampler, the colour codec, the effects and the rounded     *)
(* rectangle as functions.  The arguments of a call are drawn when the     *)
(* run starts (gargs); each action applies one function to them and        *)
(* leaves its result in applied.                                           *)
(***************************************************************************)
ScreenXY(rot) == (0..(ScreenW(rot) - 1)) \X (0..(ScreenH(rot) - 1))

NativePixels == (0..(NativeW - 1)) \X (0..(NativeH - 1))

\* everything but the arguments, the display and the result stays as
\* constructed
EffectsIdle ==
    /\ StreamUnused
    /\ WebUnused
    /\ pipeline_ = << >>
    /\ read_bg_ = TRUE
    /\ use_bg_as_source_ = FALSE
    /\ stack = << >>
    /\ px = << >>
    /\ returned = << >>
    /\ gop = "none"
    /\ applied = << >>

EffectsFrame ==
    UNCHANGED << web_vars, stream_vars, pipeline_, read_bg_, use_bg_as_source_,
                 rotation, raw_buffer, stack, gargs, px, returned >>

\* a display in any rotation, about to be sampled
SamplerInit ==
    /\ EffectsIdle
    /\ rotation \in Rotations
    /\ raw_buffer = Frame(1, NativeW * NativeH * 2)
    /\ gargs \in [kind : {"sample"}, xy : ScreenXY(rotation)]

\* GfxBlend::read_raw_pixel_from_buffer_ for an on-screen pixel
sample_call ==
    /\ gargs.kind = "sample"
    /\ gop' = "read_raw_pixel_from_buffer_"
    /\ applied' = << [native |-> NativeXY(rotation, gargs.xy[1], gargs.xy[2]),
                      pos |-> BufferPos(rotation, gargs.xy[1], gargs.xy[2]),
                      raw |-> read_raw_pixel_from_buffer_(
                                  raw_buffer, rotation,
                                  gargs.xy[1], gargs.xy[2])] >>
    /\ EffectsFrame

(***************************************************************************)
(* Effects on packed RGB565 colours.                                       *)
(***************************************************************************)
\* Effects::additive: one 16-bit sum of the packed colours, then a clamp
\* per masked field
additive(x, y, fg, bg) ==
    LET sum == (fg + bg) % 65536
        \* c & 0xF800, c & 0x07E0, c & 0x001F
        MaskR(c) == R5(c) * 2048
        MaskG(c) == G6(c) * 32
        MaskB(c) == B5(c)
        r == IF MaskR(sum) < MaskR(fg) THEN 63488 ELSE MaskR(sum)
        g == IF MaskG(sum) < MaskG(fg) THEN 2016 ELSE MaskG(sum)
        b == IF MaskB(sum) < MaskB(fg) THEN 31 ELSE MaskB(sum)
    IN  r + g + b

\* variant: the differences wrap instead of stopping at zero
subtract_wrap(x, y, fg, bg) ==
    Pack565((R5(bg) - R5(fg)) % 32, (G6(bg) - G6(fg)) % 64,
            (B5(bg) - B5(fg)) % 32)

\* Effects::subtract
subtract(x, y, fg, bg) ==
    LET r == R5(bg) - R5(fg)
        g == G6(bg) - G6(fg)
        b == B5(bg) - B5(fg)
    IN  Pack565(IF r < 0 THEN 0 ELSE r, IF g < 0 THEN 0 ELSE g,
                IF b < 0 THEN 0 ELSE b)

\* Effects::grayscale.  `if (intensity = 255)` assigns: the condition is the
\* value 255, so the full-gray return is taken for every intensity and the
\* interpolation after it is never reached.
grayscale(fg, bg, intensity) ==
    LET c == rgb565_to_color(bg)
        lum == (c[1] * 54 + c[2] * 183 + c[3] * 19) \div 256
    IN  Pack565(lum \div 8, lum \div 4, lum \div 8)

\* packed colours whose channels are 0, 1, the middle or the maximum
SampleColors == {Pack565(r, g, b) : r \in {0, 1, 16, 31},
                                    g \in {0, 1, 32, 63},
                                    b \in {0, 1, 16, 31}}

\* two colours and a level, about to be blended
BlendInit ==
    /\ EffectsIdle
    /\ rotation = 0
    /\ raw_buffer = Frame(1, NativeW * NativeH * 2)
    /\ gargs \in [kind : {"blend"}, fg : SampleColors, bg : SampleColors,
                  a : {0, 128, 255}]

\* Effects::alpha(a)(x, y, fg, bg)
alpha_call ==
    /\ gargs.kind = "blend"
    /\ gop' = "alpha"
    /\ applied' = << alpha_(gargs.fg, gargs.bg, gargs.a) >>
    /\ EffectsFrame

additive_call ==
    /\ gargs.kind = "blend"
    /\ gop' = "additive"
    /\ applied' = << additive(0, 0, gargs.fg, gargs.bg) >>
    /\ EffectsFrame

subtract_call ==
    /\ gargs.kind = "blend"
    /\ gop' = "subtract"
    /\ applied' = << subtract(0, 0, gargs.fg, gargs.bg) >>
    /\ EffectsFrame

grayscale_call ==
    /\ gargs.kind = "blend"
    /\ gop' = "grayscale"
    /\ applied' = << grayscale(gargs.fg, gargs.bg, gargs.a) >>
    /\ EffectsFrame

\* a packed colour, about to be unpacked and packed again; every 5-bit and
\* every 6-bit field value occurs
CodecInit ==
    /\ EffectsIdle
    /\ rotation = 0
    /\ raw_buffer = Frame(1, NativeW * NativeH * 2)
    /\ gargs \in [kind : {"codec"},
                  c : {Pack565(i % 32, i, 31 - (i % 32)) : i \in 0..63}
                          \cup SampleColors]

\* rgb565_to_color, then display::ColorUtil::color_to_565 on its result
codec_call ==
    /\ gargs.kind = "codec"
    /\ gop' = "rgb565_to_color"
    /\ applied' = << rgb565_to_color(gargs.c),
                     color_to_565(rgb565_to_color(gargs.c)) >>
    /\ EffectsFrame

\* conversion of an int to int16_t
ToInt16(v) == ((v + 32768) % 65536) - 32768

\* image::Image as image_mask_ sees it: get_width, get_height, get_type and
\* the bytes at get_data_start
Masks ==
    { [w |-> 2, h |-> 1, type |-> "GRAYSCALE", data |-> << 0, 255 >>],
      [w |-> 1, h |-> 2, type |-> "GRAYSCALE", data |-> << 128, 7 >>],
      [w |-> 1, h |-> 1, type |-> "RGB565", data |-> << 250, 31 >>] }

\* opacity of an RGB565 mask pixel: the bytes msb, lsb at idx, idx + 1
MaskLuminance(msb, lsb) ==
    LET r == (msb \div 8) * 8
        g == (msb % 8) * 32 + (lsb \div 32) * 4
        b == (lsb * 8) % 256
    IN  ((r * 2 + g * 5 + b) \div 8) % 256

\* variant: the mask is sampled at the screen coordinate, its origin ignored
image_mask_no_origin(x, y, fg, bg, img, rel_x, rel_y) ==
    IF x < 0 \/ x >= img.w \/ y < 0 \/ y >= img.h THEN bg
    ELSE alpha_(fg, bg, img.data[y * img.w + x + 1])

\* Effects::image_mask_
image_mask_(x, y, fg, bg, img, rel_x, rel_y) ==
    LET img_w == ToInt16(img.w)
        img_h == ToInt16(img.h)
        rx == ToInt16(x - rel_x)
        ry == ToInt16(y - rel_y)
    IN  IF rx < 0 \/ rx >= img_w \/ ry < 0 \/ ry >= img_h THEN bg
        ELSE IF img.type = "GRAYSCALE"
             THEN alpha_(fg, bg, img.data[(ry * img_w + rx) + 1])
             ELSE alpha_(fg, bg,
                         MaskLuminance(img.data[(ry * img_w + rx) * 2 + 1],
                                       img.data[(ry * img_w + rx) * 2 + 2]))

\* a pixel, two colours and a mask with its origin; the ends of int16_t are
\* among the coordinates
MaskInit ==
    /\ EffectsIdle
    /\ rotation = 0
    /\ raw_buffer = Frame(1, NativeW * NativeH * 2)
    /\ gargs \in [kind : {"mask"}, x : {0, 1, 2, 32767}, y : {0, 1, 2},
                  fg : {65535, 4660}, bg : {0, 33808}, img : Masks,
                  rel_x : {-32768, -1, 0, 1, 32767}, rel_y : {-1, 0, 1}]

\* the blender returned by Effects::image_mask(img, rel_x, rel_y)
image_mask_call ==
    /\ gargs.kind = "mask"
    /\ gop' = "image_mask"
    /\ applied' = << image_mask_(gargs.x, gargs.y, gargs.fg, gargs.bg,
                                 gargs.img, gargs.rel_x, gargs.rel_y) >>
    /\ EffectsFrame

(***************************************************************************)
(* GfxShapes::filled_round_rectangle.  A rectangle handed to               *)
(* filled_rectangle is a record [x, y, w, h].                              *)
(***************************************************************************)
Rect(x, y, w, h) == [x |-> x, y |-> y, w |-> w, h |-> h]

\* the pixels filled_rectangle draws: rows y .. y+h-1, each a horizontal
\* line of w pixels from x; nothing when w or h is not positive
Pixels(rect) ==
    {<< rect.x + i, rect.y + j >> : i \in 0..(rect.w - 1),
                                   j \in 0..(rect.h - 1)}

\* the inner loop of a corner scanline: the first dx inside the circle
FirstDx(r, dy) ==
    CHOOSE dx \in 0..(r - 1) :
        /\ (r - dx - 1) * (r - dx - 1) + (r - dy - 1) * (r - dy - 1) <= r * r
        /\ \A e \in 0..(dx - 1) :
               (r - e - 1) * (r - e - 1) + (r - dy - 1) * (r - dy - 1) > r * r

\* the four lines of scanline dy: top left, top right, bottom left,
\* bottom right
CornerLine(x, y, w, h, r, dy, k) ==
    LET dx == FirstDx(r, dy)
        line_len == r - dx
    IN  CASE k = 0 -> Rect(x + dx, y + dy, line_len, 1)
          [] k = 1 -> Rect(x + w - r, y + dy, line_len, 1)
          [] k = 2 -> Rect(x + dx, y + h - 1 - dy, line_len, 1)
          [] OTHER -> Rect(x + w - r, y + h - 1 - dy, line_len, 1)

\* variant: the upper and lower bars span the whole width
RoundRectFullBars(x, y, w, h, r0) ==
    IF r0 <= 0 THEN << Rect(x, y, w, h) >>
    ELSE LET max_r == Min(w, h) \div 2
             r == IF r0 > max_r THEN max_r ELSE r0
         IN  << Rect(x, y + r, w, h - 2 * r),
                Rect(x, y, w, r),
                Rect(x, y + h - r, w, r) >>
             \o [i \in 1..(4 * r) |->
                    CornerLine(x, y, w, h, r, (i - 1) \div 4, (i - 1) % 4)]

\* GfxShapes::filled_round_rectangle: the filled_rectangle calls it makes,
\* in order
filled_round_rectangle(x, y, w, h, r0) ==
    IF r0 <= 0 THEN << Rect(x, y, w, h) >>
    ELSE LET max_r == Min(w, h) \div 2
             r == IF r0 > max_r THEN max_r ELSE r0
         IN  << Rect(x, y + r, w, h - 2 * r),
                Rect(x + r, y, w - 2 * r, r),
                Rect(x + r, y + h - r, w - 2 * r, r) >>
             \o [i \in 1..(4 * r) |->
                    CornerLine(x, y, w, h, r, (i - 1) \div 4, (i - 1) % 4)]

\* a rounded rectangle of any size up to MaxSide and any radius
ShapeInit ==
    /\ EffectsIdle
    /\ rotation = 0
    /\ raw_buffer = Frame(1, NativeW * NativeH * 2)
    /\ gargs \in [kind : {"rrect"}, x : {1}, y : {2}, w : 0..MaxSide,
                  h : 0..MaxSide, r : (-1)..(MaxSide + 1)]

filled_round_rectangle_call ==
    /\ gargs.kind = "rrect"
    /\ gop' = "filled_round_rectangle"
    /\ applied' = filled_round_rectangle(gargs.x, gargs.y, gargs.w, gargs.h,
                                         gargs.r)
    /\ EffectsFrame

(***************************************************************************)
(* GfxProxy::horizontal_line and vertical_line in Intercepted mode: the     *)
(* proxy writes the line pixel by pixel through pipeline_blender, on and    *)
(* off the screen.                                                          *)
(***************************************************************************)
\* variant: the loop runs to i <= length
LinePixelsInclusive(dir, x, y, n) ==
    [i \in 1..(n + 1) |-> IF dir = "h" THEN << x + i - 1, y >>
                                        ELSE << x, y + i - 1 >>]

\* for (int i = 0; i < length; i++): the pixels visited, in order
LinePixels(dir, x, y, n) ==
    [i \in 1..n |-> IF dir = "h" THEN << x + i - 1, y >>
                                  ELSE << x, y + i - 1 >>]

\* buffer[pos] and buffer[pos + 1] lie in the display buffer
InBuffer(pos) == 0 <= pos /\ pos + 1 < NativeW * NativeH * 2

\* GfxProxy::draw_pixel_at through pipeline_blender; a read outside the
\* buffer yields whatever lies there
ProxyWrite(x, y, color, outside) ==
    LET pos == BufferPos(rotation, x, y)
        sample == IF raw_buffer = << >> \/ InBuffer(pos)
                  THEN read_raw_pixel_from_buffer_(raw_buffer, rotation, x, y)
                  ELSE outside
        a == BlenderArgs(read_bg_, use_bg_as_source_, color_to_565(color),
                         sample)
    IN  [x |-> x, y |-> y, read |-> read_bg_, pos |-> pos,
         fg |-> a.fg, bg |-> a.bg,
         trace |-> ApplyTrace(pipeline_, x, y, a.fg, a.bg),
         out |-> apply_pipeline(pipeline_, x, y, a.fg, a.bg)]

\* inside the drawing callback of a shape call, a one-step pipeline set
LineInit ==
    /\ StreamUnused
    /\ WebUnused
    /\ \E kind \in {"inverse", "nobg"} :
          LET c == Configured("args", << Effect(kind) >>)
          IN  /\ pipeline_ = c.p
              /\ read_bg_ = c.rb
              /\ use_bg_as_source_ = c.src
    /\ rotation \in Rotations
    /\ raw_buffer = Frame(1, NativeW * NativeH * 2)
    /\ stack = << [origin |-> "shape", mode |-> "Intercepted"] >>
    /\ px = << >>
    /\ returned = << >>
    /\ gop = "none"
    /\ applied = << >>
    /\ gargs \in [kind : {"line"}, dir : {"h", "v"}, x : -1..1, y : -1..1,
                  n : -1..3]

line_call ==
    /\ gargs.kind = "line"
    /\ gop' = "line"
    /\ \E outside \in {0, 65535} :
          applied' = [i \in 1..Len(LinePixels(gargs.dir, gargs.x, gargs.y,
                                              gargs.n)) |->
                         LET xy == LinePixels(gargs.dir, gargs.x, gargs.y,
                                              gargs.n)[i]
                         IN  ProxyWrite(xy[1], xy[2], << 200, 100, 50 >>,
                                        outside)]
    /\ EffectsFrame

EffectsInit ==
    \/ SamplerInit
    \/ BlendInit
    \/ CodecInit
    \/ MaskInit
    \/ ShapeInit
    \/ LineInit

NextEffects ==
    \/ sample_call
    \/ alpha_call
    \/ additive_call
    \/ subtract_call
    \/ grayscale_call
    \/ codec_call
    \/ image_mask_call
    \/ filled_round_rectangle_call
    \/ line_call

SpecEffects == EffectsInit /\ [][NextEffects]_vars

(***************************************************************************)
(* Claims about the background read and the effects.                       *)
(***************************************************************************)

Max2(a, b) == IF a > b THEN a ELSE b

\* C23: for all packed colours fg and bg, alpha_blend(255)(fg,bg) == fg and
\* alpha_blend(0)(fg,bg) == bg.
C23_AlphaEndpoints ==
    gop = "alpha" =>
        /\ gargs.a = 255 => applied[1] = gargs.fg
        /\ gargs.a = 0 => applied[1] = gargs.bg

\* C24: each channel of additive(fg,bg) is >= the same channel of fg and of
\* bg and equals min(fg_channel + bg_channel, channel maximum); overflow in
\* one channel never alters a neighbouring channel.
C24_AdditiveSaturates ==
    gop = "additive" =>
        LET out == applied[1]
            fg == gargs.fg
            bg == gargs.bg
        IN  /\ R5(out) = Min(R5(fg) + R5(bg), 31)
            /\ G6(out) = Min(G6(fg) + G6(bg), 63)
            /\ B5(out) = Min(B5(fg) + B5(bg), 31)
            /\ R5(out) >= Max2(R5(fg), R5(bg))
            /\ G6(out) >= Max2(G6(fg), G6(bg))
            /\ B5(out) >= Max2(B5(fg), B5(bg))

\* the gray of full intensity for an input colour
FullGray(c) ==
    LET lum == (rgb565_to_color(c)[1] * 54 + rgb565_to_color(c)[2] * 183
                    + rgb565_to_color(c)[3] * 19) \div 256
    IN  Pack565(lum \div 8, lum \div 4, lum \div 8)

Between(v, a, b) == Min(a, b) <= v /\ v <= Max2(a, b)

\* C26: grayscale with intensity 0 returns the input colour unchanged, with
\* intensity 255 the full-luminance gray, and for intermediate intensities
\* each channel lies between the two.
C26_GrayscaleIntensity ==
    gop = "grayscale" =>
        LET out == applied[1]
            in == gargs.bg
            gray == FullGray(in)
        IN  /\ gargs.a = 0 => out = in
            /\ gargs.a = 255 => out = gray
            /\ /\ Between(R5(out), R5(in), R5(gray))
               /\ Between(G6(out), G6(in), G6(gray))
               /\ Between(B5(out), B5(in), B5(gray))

\* C28: each channel of subtractive(fg,bg) equals max(bg_channel -
\* fg_channel, 0): no result channel exceeds the bg channel and underflow in
\* one channel never borrows from another.
C28_SubtractClamps ==
    gop = "subtract" =>
        LET out == applied[1]
            fg == gargs.fg
            bg == gargs.bg
        IN  /\ R5(out) = Max2(R5(bg) - R5(fg), 0)
            /\ G6(out) = Max2(G6(bg) - G6(fg), 0)
            /\ B5(out) = Max2(B5(bg) - B5(fg), 0)
            /\ R5(out) <= R5(bg)
            /\ G6(out) <= G6(bg)
            /\ B5(out) <= B5(bg)
            /\ out \in 0..65535

\* blue underflows and is held at zero while green, its neighbour, keeps
\* its own difference
C28_Witness ==
    /\ gop = "subtract"
    /\ B5(gargs.fg) > B5(gargs.bg)
    /\ G6(gargs.bg) > G6(gargs.fg)
    /\ B5(applied[1]) = 0
    /\ G6(applied[1]) = G6(gargs.bg) - G6(gargs.fg)

\* C25: for every packed colour c, unpacking with bit replication and
\* repacking by 5-6-5 truncation returns c; each channel's maximum field
\* value unpacks to 255 and zero unpacks to 0.
C25_CodecRoundTrip ==
    gop = "rgb565_to_color" =>
        LET c == gargs.c
            col == applied[1]
        IN  /\ applied[2] = c
            /\ Pack565(col[1] \div 8, col[2] \div 4, col[3] \div 8) = c
            /\ R5(c) = 31 => col[1] = 255
            /\ G6(c) = 63 => col[2] = 255
            /\ B5(c) = 31 => col[3] = 255
            /\ R5(c) = 0 => col[1] = 0
            /\ G6(c) = 0 => col[2] = 0
            /\ B5(c) = 0 => col[3] = 0
            /\ \A k \in 1..3 : col[k] \in 0..255

\* white unpacks to (255, 255, 255) and packs back to white
C25_Witness ==
    /\ gop = "rgb565_to_color"
    /\ gargs.c = 65535
    /\ applied = << << 255, 255, 255 >>, 65535 >>

C22_RoundRectNoOverdraw ==
    gop = "filled_round_rectangle" =>
        \A i, j \in DOMAIN applied :
            i < j => Pixels(applied[i]) \cap Pixels(applied[j]) = {}

\* a radius above half the side, clamped to 4: three bands, sixteen corner
\* lines, the outermost of them shorter than the radius, and every pixel of
\* the bounding box but the cut corners written
C22_Witness ==
    /\ gop = "filled_round_rectangle"
    /\ gargs.w = 8
    /\ gargs.h = 8
    /\ gargs.r > 4
    /\ Len(applied) = 19
    /\ applied[4] = Rect(gargs.x + 1, gargs.y, 3, 1)
    /\ Cardinality(UNION {Pixels(applied[i]) : i \in DOMAIN applied}) = 60

(***************************************************************************)
(* Part 4: construction on a null display.                                 *)
(*                                                                         *)
(* GfxBlend(nullptr) logs and returns before it touches disp_.             *)
(* DisplayStream(nullptr) logs and goes on: get_raw_buffer reads           *)
(* display->buffer_ and get_width / get_height are virtual calls on        *)
(* display.  Both are undefined on a null pointer; the build either traps  *)
(* on the access (op = "fault", nothing runs afterwards) or the loads      *)
(* return whatever lies at that address, and the fields hold those values. *)
(***************************************************************************)
NullDisplayFault ==
    /\ width_ = 0
    /\ height_ = 0
    /\ buffer_length_ = 0
    /\ buffer_ = NullPtr
    /\ framebuffer = << >>
    /\ op = "fault"

NullDisplayGarbage ==
    /\ width_ \in 0..MaxWidth
    /\ height_ \in 0..MaxHeight
    /\ buffer_length_ = BufferLength(width_, height_)
    /\ buffer_ \in {NullPtr, 1}
    /\ \E f \in 0..MaxFrame : framebuffer = Frame(f, buffer_length_)
    /\ op = "DisplayStream"

\* the state after GfxBlend(nullptr) and DisplayStream(nullptr, max_chunk_size)
NullInit ==
    /\ NullDisplayFault \/ NullDisplayGarbage
    /\ max_chunk_size_ \in 0..MaxChunk
    /\ snapshot_buffer_ = NullPtr
    /\ snapshot_mem = << >>
    /\ current_pos_ = 0
    /\ header_sent_ = FALSE
    /\ is_streaming_ = FALSE
    /\ ret = FALSE
    /\ sunk = << >>
    /\ heap = "none"
    /\ pre = [pos |-> 0, hdr |-> FALSE, act |-> FALSE, snap |-> NullPtr,
              mem |-> << >>, fb |-> framebuffer]
    /\ sent = << >>
    /\ pipeline_ = << >>
    /\ read_bg_ = TRUE
    /\ use_bg_as_source_ = FALSE
    /\ rotation = 0
    /\ raw_buffer = << >>
    /\ stack = << >>
    /\ gop = "GfxBlend"
    /\ gargs = << >>
    /\ px = << >>
    /\ applied = << >>
    /\ returned = << >>
    /\ WebUnused

\* take_snapshot on the encoder so constructed, if the program still runs
take_snapshot_null ==
    /\ op # "fault"
    /\ take_snapshot

NextNull ==
    \/ take_snapshot_null

SpecNull == NullInit /\ [][NextNull]_vars

\* C29: construction with a null real surface is a logged configuration
\* error that leaves the component non-functional but not crashed: neither
\* constructor dereferences the null surface, and afterwards take_snapshot
\* returns false instead of faulting.
C29_NullSurfaceHarmless ==
    /\ op # "fault"
    /\ buffer_ = NullPtr
    /\ op = "take_snapshot" => ret = FALSE

(***************************************************************************)
(* Part 5: WebServerRoutes.  A string that is compared is a sequence of    *)
(* character codes; a header value is never inspected and stays a string.  *)
(***************************************************************************)

\* largest number of set_header calls a route action makes
MaxCalls == 2

\* "Cache-Control", "Connection", "Content-Type", "Content-Disposition" and
\* a header of the route's own, "X-Id"
HeaderName ==
    [ cache_control |->
          << 67, 97, 99, 104, 101, 45, 67, 111, 110, 116, 114, 111,
          108 >>,
      connection |->
          << 67, 111, 110, 110, 101, 99, 116, 105, 111, 110 >>,
      content_type |->
          << 67, 111, 110, 116, 101, 110, 116, 45, 84, 121, 112, 101
          >>,
      content_disposition |->
          << 67, 111, 110, 116, 101, 110, 116, 45, 68, 105, 115, 112,
          111, 115, 105, 116, 105, 111, 110 >>,
      custom |->
          << 88, 45, 73, 100 >> ]

\* std::tolower on one character, and its inverse on a letter
tolower(c) == IF c \in 65..90 THEN c + 32 ELSE c
ToLower(str) == [i \in DOMAIN str |-> tolower(str[i])]
ToUpper(str) == [i \in DOMAIN str |->
                    IF str[i] \in 97..122 THEN str[i] - 32 ELSE str[i]]

\* WebServerRoutes::iequals_: std::equal over both ranges
iequals_(a, b) ==
    /\ Len(a) = Len(b)
    /\ \A i \in 1..Len(a) : tolower(a[i]) = tolower(b[i])

\* the loop of set_header over current_headers_, two strings a header
HeaderFound(hdrs, field) ==
    \E i \in 1..Len(hdrs) : i % 2 = 1 /\ iequals_(hdrs[i], field)

\* variant: the header is stored and registered without the search
set_header_no_search(st, field, value, by) ==
    LET call == [field |-> field, value |-> value, by |-> by]
    IN  IF st.req = NullPtr
        THEN [st EXCEPT !.calls = Append(@, call)]
        ELSE [st EXCEPT
                 !.calls = Append(@, call),
                 !.hdrs = @ \o << field, value >>,
                 !.reg = Append(@, [api |-> IF iequals_(field,
                                                 HeaderName.content_type)
                                            THEN "httpd_resp_set_type"
                                            ELSE "httpd_resp_set_hdr",
                                    field |-> field, value |-> value])]

\* WebServerRoutes::set_header on st = [req, hdrs, reg, calls]: the request,
\* current_headers_, the registrations and the calls so far
SetHeader(st, field, value, by) ==
    LET call == [field |-> field, value |-> value, by |-> by]
    IN  IF st.req = NullPtr
        THEN [st EXCEPT !.calls = Append(@, call)]
        ELSE IF HeaderFound(st.hdrs, field)
        THEN [st EXCEPT !.calls = Append(@, call)]
        ELSE [st EXCEPT
                 !.calls = Append(@, call),
                 !.hdrs = @ \o << field, value >>,
                 !.reg = Append(@, [api |-> IF iequals_(field,
                                                 HeaderName.content_type)
                                            THEN "httpd_resp_set_type"
                                            ELSE "httpd_resp_set_hdr",
                                    field |-> field, value |-> value])]

\* RouteEntry: path, key, content_type and content_disposition from the
\* YAML route; strings that are compared or extended are character
\* sequences
Routes ==
    { [path |-> << "/", "a" >>, key |-> "",
       content_type |-> "", content_disposition |-> ""],
      [path |-> << "/", "a" >>, key |-> "k",
       content_type |-> "image/bmp", content_disposition |-> "inline"],
      [path |-> << "/", "a" >>, key |-> "j",
       content_type |-> "", content_disposition |-> "inline"],
      [path |-> << "/", "b" >>, key |-> "",
       content_type |-> "image/bmp", content_disposition |-> ""] }

\* add_route called once per YAML route, in any order: push_back
RouteTables ==
    {t \in [1..2 -> Routes] : t[1] # t[2]}

\* the requests the server hands to the handler: url and query parameters
Requests ==
    [url : {r.path : r \in Routes}
               \cup {r.path \o << "/" >> : r \in Routes}
               \cup {<< "/", "c" >>},
     params : SUBSET {"k", "j"}]

WebInit ==
    /\ StreamUnused
    /\ GfxUnused
    /\ current_req_ = NullPtr
    /\ current_route_ = NullPtr
    /\ is_busy_ = FALSE
    /\ current_headers_ = << >>
    /\ registered = << >>
    /\ wpc = "idle"
    /\ wop = [name |-> "WebServerRoutes"]
    /\ wcalls = << >>
    /\ routes_ \in RouteTables
    /\ matched_route_ = NullPtr

WebFrame == UNCHANGED << stream_vars, gfx_vars, routes_ >>

\* the test of canHandle for one route
RouteMatches(route, request) ==
    /\ request.url = route.path \/ request.url = route.path \o << "/" >>
    /\ route.key = "" \/ route.key \in request.params

\* the loop of canHandle: the first route of routes_ that matches, or none
FirstMatch(routes, request) ==
    LET any == {i \in DOMAIN routes : RouteMatches(routes[i], request)}
    IN  IF any # {} THEN CHOOSE i \in any : \A j \in any : i <= j
        ELSE NullPtr

\* RouteHandler::canHandle
canHandle ==
    /\ wpc = "idle"
    /\ \E request \in Requests :
          /\ matched_route_' = FirstMatch(routes_, request)
          /\ wop' = [name |-> "canHandle", request |-> request,
                     result |-> FirstMatch(routes_, request) # NullPtr]
    /\ UNCHANGED << current_req_, current_route_, is_busy_, current_headers_,
                    registered, wcalls, wpc >>
    /\ WebFrame

\* WebServerRoutes::reset_request_context_
reset_request_context_ ==
    /\ current_req_' = NullPtr
    /\ current_route_' = NullPtr
    /\ is_busy_' = FALSE
    /\ current_headers_' = << >>

\* handle_native_request_ up to the call of route.action
handle_native_request_ ==
    /\ wpc = "idle"
    /\ LET route == routes_[matched_route_]
          s0 == [req |-> 1, hdrs |-> current_headers_, reg |-> << >>,
                 calls |-> << >>]
          s1 == SetHeader(s0, HeaderName.cache_control, "no-cache", "auto")
          s2 == SetHeader(s1, HeaderName.connection, "close", "auto")
          s3 == IF route.content_type # ""
                THEN SetHeader(s2, HeaderName.content_type,
                               route.content_type, "yaml")
                ELSE s2
          s4 == IF route.content_disposition # ""
                THEN SetHeader(s3, HeaderName.content_disposition,
                               route.content_disposition, "yaml")
                ELSE s3
      IN  /\ current_req_' = 1
          /\ current_route_' = route
          /\ is_busy_' = TRUE
          /\ current_headers_' = s4.hdrs
          /\ registered' = s4.reg
          /\ wcalls' = s4.calls
    /\ wpc' = "action"
    /\ wop' = [name |-> "handleRequest", ran |-> TRUE]
    /\ UNCHANGED matched_route_
    /\ WebFrame

\* RouteHandler::handleRequest up to the call of route.action; net_req is
\* the httpd_req_t of the request, NullPtr when it has none
handleRequest ==
    /\ wpc = "idle"
    /\ IF matched_route_ = NullPtr
       THEN /\ wop' = [name |-> "handleRequest", ran |-> FALSE]
            /\ UNCHANGED << current_req_, current_route_, is_busy_,
                            current_headers_, registered, wcalls, wpc,
                            matched_route_ >>
            /\ WebFrame
       ELSE \E net_req \in {NullPtr, 1} :
               IF net_req = NullPtr
               THEN /\ matched_route_' = NullPtr
                    /\ wop' = [name |-> "handleRequest", ran |-> FALSE]
                    /\ UNCHANGED << current_req_, current_route_, is_busy_,
                                    current_headers_, registered, wcalls,
                                    wpc >>
                    /\ WebFrame
               ELSE handle_native_request_

\* the header fields a route action asks for, in the case it likes
LambdaFields ==
    { ToLower(HeaderName.content_type), ToUpper(HeaderName.cache_control),
      HeaderName.content_disposition, HeaderName.custom,
      ToLower(HeaderName.custom) }

\* set_header called by the route action (also through set_content_type,
\* set_content_disposition and set_filename, which only pick the field)
set_header ==
    /\ wpc = "action"
    /\ Len(SelectSeq(wcalls, LAMBDA c : c.by = "lambda")) < MaxCalls
    /\ \E field \in LambdaFields, value \in {"a", "b"} :
          LET st == SetHeader([req |-> current_req_,
                               hdrs |-> current_headers_,
                               reg |-> registered, calls |-> wcalls],
                              field, value, "lambda")
          IN  /\ current_headers_' = st.hdrs
              /\ registered' = st.reg
              /\ wcalls' = st.calls
    /\ wop' = [name |-> "set_header"]
    /\ UNCHANGED << current_req_, current_route_, is_busy_, wpc,
                    matched_route_ >>
    /\ WebFrame

\* variant: a chunk that could not be sent leaves the request open
send_binary_keep_context ==
    /\ wpc = "action"
    /\ IF current_req_ = NullPtr
       THEN wop' = [name |-> "send_binary", attempts |-> 0, delivered |-> 0,
                    res |-> "none"]
       ELSE \E n \in 1..5,
               res \in {"ESP_OK", "ESP_ERR_HTTPD_RESP_SEND", "ESP_FAIL"} :
               /\ res = "ESP_ERR_HTTPD_RESP_SEND" => n = 5
               /\ wop' = [name |-> "send_binary", attempts |-> n,
                          delivered |-> IF res = "ESP_OK" THEN 1 ELSE 0,
                          res |-> res]
    /\ UNCHANGED << current_req_, current_route_, is_busy_, current_headers_,
                    registered, wpc, wcalls, matched_route_ >>
    /\ WebFrame

\* send_binary called by the route action with len > 0: up to five
\* httpd_resp_send_chunk attempts, all but the last of them answered
\* ESP_ERR_HTTPD_RESP_SEND; delivered counts the attempts answered ESP_OK
send_binary ==
    /\ wpc = "action"
    /\ IF current_req_ = NullPtr
       THEN /\ wop' = [name |-> "send_binary", attempts |-> 0,
                       delivered |-> 0, res |-> "none"]
            /\ UNCHANGED << current_req_, current_route_, is_busy_,
                            current_headers_ >>
       ELSE \E n \in 1..5,
               res \in {"ESP_OK", "ESP_ERR_HTTPD_RESP_SEND", "ESP_FAIL"} :
               /\ res = "ESP_ERR_HTTPD_RESP_SEND" => n = 5
               /\ wop' = [name |-> "send_binary", attempts |-> n,
                          delivered |-> IF res = "ESP_OK" THEN 1 ELSE 0,
                          res |-> res]
               /\ IF res = "ESP_OK"
                  THEN UNCHANGED << current_req_, current_route_, is_busy_,
                                    current_headers_ >>
                  ELSE reset_request_context_
    /\ UNCHANGED << registered, wpc, wcalls, matched_route_ >>
    /\ WebFrame

\* variant: the header list outlives the request
action_return_keep_headers ==
    /\ wpc = "action"
    /\ current_req_' = NullPtr
    /\ current_route_' = NullPtr
    /\ is_busy_' = FALSE
    /\ matched_route_' = NullPtr
    /\ wpc' = "idle"
    /\ wop' = [name |-> "action_return"]
    /\ registered' = << >>
    /\ wcalls' = << >>
    /\ UNCHANGED current_headers_
    /\ WebFrame

\* handle_native_request_ after route.action returned: the final chunk and
\* reset_request_context_; then handleRequest clears matched_route_ and the
\* request, with what it holds, is gone
action_return ==
    /\ wpc = "action"
    /\ reset_request_context_
    /\ matched_route_' = NullPtr
    /\ wpc' = "idle"
    /\ wop' = [name |-> "action_return"]
    /\ registered' = << >>
    /\ wcalls' = << >>
    /\ WebFrame

NextWeb ==
    \/ canHandle
    \/ handleRequest
    \/ set_header
    \/ send_binary
    \/ action_return

SpecWeb == WebInit /\ [][NextWeb]_vars

\* C30: within one HTTP request header registration is first come, first
\* served: for every header field name, compared case-insensitively, only
\* the first set_header call takes effect, so the headers set from the
\* route's YAML configuration and the automatic Cache-Control / Connection
\* headers are never overridden by later set_header calls of the route
\* action, and each field is registered with the server at most once.
C30_FirstComeFirstServed ==
    /\ \A i, j \in DOMAIN registered :
           i < j => ~iequals_(registered[i].field, registered[j].field)
    /\ \A r \in DOMAIN registered :
           \E k \in DOMAIN wcalls :
               /\ wcalls[k].field = registered[r].field
               /\ wcalls[k].value = registered[r].value
               /\ \A m \in 1..(k - 1) :
                      ~iequals_(wcalls[m].field, wcalls[k].field)
    /\ \A k \in DOMAIN wcalls :
           wcalls[k].by # "lambda" =>
               \E r \in DOMAIN registered :
                   /\ registered[r].field = wcalls[k].field
                   /\ registered[r].value = wcalls[k].value

\* the YAML content type went through httpd_resp_set_type; the route action
\* then asked for "X-Id" and for "x-id": the request holds the first value
C30_Witness ==
    /\ wpc = "action"
    /\ current_req_ # NullPtr
    /\ Len(wcalls) = 6
    /\ wcalls[3] = [field |-> HeaderName.content_type, value |-> "image/bmp",
                    by |-> "yaml"]
    /\ wcalls[5] = [field |-> HeaderName.custom, value |-> "a",
                    by |-> "lambda"]
    /\ wcalls[6] = [field |-> ToLower(HeaderName.custom), value |-> "b",
                    by |-> "lambda"]
    /\ Len(registered) = 5
    /\ registered[3] = [api |-> "httpd_resp_set_type",
                        field |-> HeaderName.content_type,
                        value |-> "image/bmp"]
    /\ registered[5] = [api |-> "httpd_resp_set_hdr",
                        field |-> HeaderName.custom, value |-> "a"]

\* C31: routes without a key are only a fallback: when the URL of a request
\* matches a key-based route whose key is among the query parameters, a
\* key-based route is selected, whatever the order of registration, and a
\* keyless route is selected only if no key-based route matches.
C31_KeyRouteWins ==
    wop.name = "canHandle" =>
        LET rq == wop.request
            fits(i) == rq.url = routes_[i].path
                          \/ rq.url = routes_[i].path \o << "/" >>
            keyed == {i \in DOMAIN routes_ :
                         /\ fits(i)
                         /\ routes_[i].key # ""
                         /\ routes_[i].key \in rq.params}
        IN  /\ keyed # {} => matched_route_ \in keyed
            /\ (matched_route_ # NullPtr /\ routes_[matched_route_].key = "")
                   => keyed = {}

\* C34: send_binary makes at most five attempts for a chunk and delivers it
\* at most once; when it gives up (five buffer-full results or one critical
\* error) the request context is reset, and from then on every send_binary
\* and set_header call of the same route action does nothing: no attempt,
\* no chunk delivered, no header registered.
C34_FailedSendEndsRequest ==
    [][ /\ wop'.name = "send_binary"
            => /\ wop'.attempts <= 5
               /\ wop'.delivered <= 1
               /\ wop'.delivered = 1 <=> wop'.res = "ESP_OK"
               /\ wop'.res = "ESP_ERR_HTTPD_RESP_SEND" => wop'.attempts = 5
        /\ (wop'.name = "send_binary" /\ current_req_ # NullPtr
                /\ wop'.res # "ESP_OK")
            => /\ current_req_' = NullPtr
               /\ current_route_' = NullPtr
               /\ is_busy_' = FALSE
               /\ current_headers_' = << >>
        /\ (wpc = "action" /\ current_req_ = NullPtr /\ wpc' = "action")
            => /\ current_req_' = NullPtr
               /\ registered' = registered
               /\ current_headers_' = << >>
               /\ wop'.name = "send_binary"
                      => wop'.attempts = 0 /\ wop'.delivered = 0
      ]_vars

\* the route action called send_binary again after a chunk had failed
C34_Witness ==
    /\ wpc = "action"
    /\ current_req_ = NullPtr
    /\ wop.name = "send_binary"
    /\ wop.attempts = 0
    /\ Len(wcalls) > Len(registered)

\* C35: between requests the current request, the current route, the busy
\* flag and the header list are reset, whether or not a send failed, so
\* in every request the automatic and YAML headers are all registered;
\* handleRequest runs the action of the route canHandle matched, once, and
\* only directly after a canHandle that returned true.
C35_ContextResetBetweenRequests ==
    /\ [](wpc = "idle"
             => /\ current_req_ = NullPtr
                /\ current_route_ = NullPtr
                /\ is_busy_ = FALSE
                /\ current_headers_ = << >>)
    /\ [](wop.name = "action_return" => matched_route_ = NullPtr)
    /\ [](wop.name = "handleRequest"
             => IF wop.ran
                THEN /\ wpc = "action"
                     /\ is_busy_
                     /\ current_route_ = routes_[matched_route_]
                     /\ Len(registered) = Len(wcalls)
                     /\ registered[1].field = HeaderName.cache_control
                     /\ registered[2].field = HeaderName.connection
                ELSE wpc = "idle")
    /\ [][ (wop'.name = "handleRequest" /\ wop'.ran)
              => (wop.name = "canHandle" /\ wop.result) ]_vars

\* a request has been handled and its route action has returned
C35_Witness ==
    /\ wop.name = "action_return"
    /\ wpc = "idle"
    /\ is_busy_ = FALSE
    /\ matched_route_ = NullPtr

(***************************************************************************)
(* Part 6: DisplayStream driven as the README drives it.  The route lambda *)
(* runs `while (get_bmp_chunk(cb)) {}` after start_streaming; the display  *)
(* lambda redraws and calls take_snapshot only when needs_snapshot().      *)
(***************************************************************************)

\* the while loop has not seen get_bmp_chunk return false yet
LoopPending ==
    /\ is_streaming_
    /\ ~ /\ sent # << >>
         /\ sent[Len(sent)].kind = "pixels"
         /\ current_pos_ >= buffer_length_

\* a request starts a session when no loop is running
loop_start ==
    /\ ~LoopPending
    /\ start_streaming

\* one turn of the while loop
loop_chunk ==
    /\ LoopPending
    /\ get_bmp_chunk

\* the display lambda: if (needs_snapshot()) take_snapshot()
snapshot_if_needed ==
    /\ NeedsSnapshot(is_streaming_, snapshot_buffer_)
    /\ take_snapshot

NextSession ==
    \/ DisplayDraw
    \/ loop_start
    \/ loop_chunk
    \/ snapshot_if_needed

\* the loop keeps turning, and a take_snapshot that can succeed does
SpecSession ==
    /\ Init
    /\ [][NextSession]_vars
    /\ WF_vars(loop_chunk)
    /\ WF_vars(snapshot_if_needed /\ heap' = "ok")

\* C36: for a caller that calls take_snapshot only when needs_snapshot() is
\* true, every session streams a snapshot taken after its start_streaming:
\* in every session, the second and later ones too, needs_snapshot() is
\* true after start_streaming until a fresh snapshot is taken, so no session
\* streams the frame captured for an earlier one.
C36_FreshSnapshotPerSession ==
    op = "start_streaming" => NeedsSnapshot(is_streaming_, snapshot_buffer_)

Ceil(a, b) == (a + b - 1) \div b

\* the last call was get_bmp_chunk and it returned false
LoopDone == IF op = "get_bmp_chunk" THEN ret = FALSE ELSE FALSE

\* C37: with max_chunk_size >= 1, if take_snapshot eventually succeeds and
\* the caller keeps calling get_bmp_chunk while it returns true, the session
\* eventually returns false, after one header call and exactly
\* ceil(buffer_length / max_chunk_size) data-emitting calls; once a snapshot
\* exists get_bmp_chunk does not return true forever.
C37_SessionCompletes ==
    /\ [](max_chunk_size_ >= 1 /\ LoopDone
            => /\ Len(sent) = 1 + Ceil(buffer_length_, max_chunk_size_)
               /\ sent[1].kind = "header"
               /\ \A i \in 2..Len(sent) :
                      sent[i].kind = "pixels" /\ sent[i].len >= 1)
    /\ (op = "start_streaming" /\ max_chunk_size_ >= 1
            /\ (buffer_ # NullPtr \/ buffer_length_ = 0))
           ~> LoopDone
    /\ (LoopPending /\ max_chunk_size_ >= 1 /\ snapshot_buffer_ # NullPtr)
           ~> ~LoopPending

\* eight bytes in chunks of at most three: the header, then 3 + 3 + 2
C37_Witness ==
    /\ op = "get_bmp_chunk"
    /\ ret = FALSE
    /\ buffer_length_ = 8
    /\ max_chunk_size_ = 3
    /\ Len(sent) = 4
    /\ sent[4] = [kind |-> "pixels", off |-> 6, len |-> 2]

\* the 32-bit little-endian field at byte offset at of a header
Field32(bytes, at) ==
    bytes[at + 1] + bytes[at + 2] * Pow256(1) + bytes[at + 3] * Pow256(2)
        + bytes[at + 4] * Pow256(3)

RECURSIVE SumLen(_)
SumLen(log) == IF log = << >> THEN 0 ELSE log[1].len + SumLen(Tail(log))

\* C38: the size figures agree: when get_bmp_chunk has returned false the
\* lengths handed to the sink in the session (header and chunks) add up to
\* get_file_size(), get_file_size() returns the header's total-file-size
\* field (offset 2), and the header call hands over as many bytes as the
\* header's pixel-data-offset field (offset 10) says.
C38_SizeFiguresAgree ==
    /\ (op = "get_bmp_chunk" /\ ret = FALSE)
            => SumLen(sent) = FileSize(buffer_length_)
    /\ op = "get_file_size"
            => ret = Field32(get_bmp_header(width_, height_, buffer_length_), 2)
    /\ (op = "get_bmp_chunk" /\ sunk # << >> /\ sunk[1].kind = "header")
            => /\ Len(sunk[1].data) = sunk[1].len
               /\ sunk[1].len = Field32(sunk[1].data, 10)
               /\ FileSize(buffer_length_) = Field32(sunk[1].data, 2)

\* a finished session of a 4 x 1 display in chunks of three bytes
C38_Witness ==
    /\ op = "get_bmp_chunk"
    /\ ret = FALSE
    /\ max_chunk_size_ = 3
    /\ Len(sent) = 4
    /\ SumLen(sent) = 74

\* C39: every with(...) replaces the pipeline: after with(B), in setter or
\* scoped mode and whatever was configured before, the pipeline is exactly
\* the steps of B and both flags are what B alone yields from the cleared
\* state; when a scoped with(...) returns, the pipeline is empty and the
\* flags are at their defaults, so an earlier setter-mode pipeline is gone.
C39_WithReplaces ==
    /\ gop \in {"with_setter", "with_scoped"}
            => LET steps == Stored(gargs[1], gargs[2])
                   c == AddAll(Cleared, steps)
               IN  /\ pipeline_ = steps
                   /\ read_bg_ = c.rb
                   /\ use_bg_as_source_ = c.src
    /\ gop = "with_return"
            => /\ pipeline_ = << >>
               /\ read_bg_ = TRUE
               /\ use_bg_as_source_ = FALSE

\* a setter-mode with(inverse) issued in the callback of a scoped with(...)
\* that had installed a pipeline of its own
C39_Witness ==
    /\ gop = "with_setter"
    /\ stack # << >>
    /\ stack[1].mode = "Intercepted"
    /\ Kinds(pipeline_) = << "inverse" >>
    /\ read_bg_ = TRUE

(***************************************************************************)
(* The wrappers of gfx.needs_no_bg(...) and gfx.bg_as_source(...): the     *)
(* canvas is configured in setter mode with plain effects and wrapped      *)
(* ones, and shapes are drawn through it.                                  *)
(***************************************************************************)
WrapperKinds == {"inverse", "nobg", "bgsrc"}

with_wrappers ==
    /\ InUserCode
    /\ \E form \in {"list", "args"},
          steps \in UNION {[1..k -> {Effect(kind) : kind \in WrapperKinds}] :
                               k \in 1..MaxSteps} :
          /\ SetConfig(Configured(form, steps))
          /\ gargs' = << form, steps >>
    /\ gop' = "with_setter"
    /\ px' = << >>
    /\ applied' = << >>
    /\ returned' = << >>
    /\ UNCHANGED << web_vars, stream_vars, rotation, raw_buffer, stack >>

NextWrappers ==
    \/ with_wrappers
    \/ filled_rectangle
    \/ shape_return
    \/ draw_pixel_at
    \/ apply_call

SpecWrappers == GfxInit /\ [][NextWrappers]_vars

\* the places of the pipeline holding a step wrapped by bg_as_source(...)
\* whose type add_step_internal_ can see
WrappedAt(p) == {i \in 1..Len(p) : p[i] = Effect("bgsrc")}

\* C32: configuring the pipeline with a step wrapped by bg_as_source(...)
\* leaves use_bg_as_source_ and read_bg_ both true, also when another step
\* of the same with(...) was wrapped by needs_no_bg(...), and a pixel drawn
\* through that pipeline hands the wrapped step the colour read from the
\* framebuffer as its background, never the placeholder 0.
C32_BgAsSourceForcesRead ==
    /\ (gop = "with_setter" /\ WrappedAt(pipeline_) # {})
            => use_bg_as_source_ /\ read_bg_
    /\ (gop = "draw_pixel_at" /\ px # << >>)
            => \A i \in WrappedAt(pipeline_) :
                  /\ px[1].mode = "Intercepted"
                  /\ px[1].read
                  /\ px[1].trace[i].bg = px[1].sample

\* C33: in Intercepted mode a horizontal line of width n at (x,y) makes
\* exactly n single-pixel writes, at (x+i, y) for i = 0..n-1 in this order,
\* a vertical line of height n makes n writes at (x, y+i), each write goes
\* through every step of the pipeline on its own, and a line of length
\* <= 0 writes nothing.
C33_LinesPixelByPixel ==
    gop = "line" =>
        /\ Len(applied) = Max2(gargs.n, 0)
        /\ \A i \in 1..Len(applied) :
              /\ applied[i].x = gargs.x + (IF gargs.dir = "h" THEN i - 1 ELSE 0)
              /\ applied[i].y = gargs.y + (IF gargs.dir = "v" THEN i - 1 ELSE 0)
              /\ Len(applied[i].trace) = Len(pipeline_)
              /\ applied[i].trace[1].x = applied[i].x
              /\ applied[i].trace[1].y = applied[i].y
              /\ applied[i].out = applied[i].trace[1].out

\* a vertical line of three pixels from (1,-1) downwards
C33_Witness ==
    /\ gop = "line"
    /\ gargs.dir = "v"
    /\ gargs.n = 3
    /\ Len(applied) = 3
    /\ applied[3].x = 1
    /\ applied[3].y = 1

\* C40: every background read made for an intercepted pixel write stays in
\* the framebuffer, also for shapes reaching beyond the display edges: the
\* byte offset read satisfies 0 <= offset and offset + 1 < native_w *
\* native_h * 2.
C40_BackgroundReadInBounds ==
    gop = "line" =>
        \A i \in 1..Len(applied) :
            applied[i].read =>
                /\ 0 <= applied[i].pos
                /\ applied[i].pos + 1 < NativeW * NativeH * 2

====
